---------------------------- MODULE Spec2Model ----------------------------
(***************************************************************************)
(* MicroCraft (full variant): the event bus, the fog of war and the        *)
(* fixed-timestep tick of the simulation core.                             *)
(*                                                                         *)
(* Three specifications share the module:                                  *)
(*   SpecBus  the EventBus of full/core/events.py driven by arbitrary      *)
(*            subscribers (callables that return, raise or publish);       *)
(*   SpecFog  FogOfWar.update_visibility / World.update_fog_of_war over    *)
(*            entities that move, die and appear between updates;          *)
(*   Spec     Game._tick with its seven systems and the player commands.   *)
(* A specification leaves the variables of the others at their initial     *)
(* value.                                                                  *)
(***************************************************************************)
EXTENDS Integers, Sequences, FiniteSets, TLC

VARIABLES
    subscribers,    \* EventBus._subscribers: event type -> list of handlers
    history,        \* the subscribe/unsubscribe/clear calls made so far, in order
    calls,          \* handler invocations of the last publish, in order
    lastEvent,      \* type of the event of the last publish ("none" before)
    outcome,        \* "none" | "returned" | "raised": how the last publish ended
    published_at,   \* length of history when the last publish was made
    tick_completed, \* whether the _tick that made the last publish ran to its end
    entities,       \* World.entities: entity id -> entity (ids are 1..Len)
    fog,            \* World.fog: team -> tile -> HIDDEN | EXPLORED | VISIBLE
    fog_fresh,      \* TRUE when the last step was World.update_fog_of_war
    fog_changes,    \* entity changes made so far by the fog specification
    pc,             \* Game._tick: "idle" between ticks, else the step to run next
    ran,            \* the steps the current (or last) tick has run, in order
    game_time,      \* World.game_time, in seconds
    game_over,      \* World.game_over
    winner,         \* World.winner (0 for None)
    game_over_time, \* World.game_over_time (-1 for None)
    team_minerals,  \* World.team_minerals: team -> minerals
    minerals,       \* World.minerals: patch id -> [x, y, minerals]
    events,         \* the events the current tick, or the last command, has published
    selected_ids,   \* SelectionManager.selected_ids
    build_mode,     \* Game.build_mode
    build_type,     \* Game.build_type ("none" for None)
    commands,       \* player commands issued so far
    result,         \* what the last Building.queue_production call returned
    stuck_timers,   \* MovementSystem._stuck_timers: unit id -> <<timer, x, y>>
    base_attack_cooldown,     \* CombatSystem._base_attack_cooldown
    gather_timers,            \* ResourceSystem._gather_timers
    build_timers,             \* BuildingPlacementSystem._build_timers
    mineral_warning_cooldown, \* BuildingPlacementSystem._mineral_warning_cooldown
    ai,             \* the fields of the AISystem
    horizon,        \* the game time at which the main loop is left
    began,          \* the entities and the team minerals the run started with
    game_map,       \* World.game_map: [width, height, rocks]
    log             \* the combat and production events of the ticks completed so far

busVars == <<subscribers, history, calls, lastEvent, outcome, published_at,
            tick_completed>>

worldVars == <<entities, fog>>

fogVars == <<fog_fresh, fog_changes>>

\* what a run keeps for the record
runVars == <<horizon, began, game_map>>

clockVars == <<game_time, game_over, winner, game_over_time, runVars, log>>

uiVars == <<selected_ids, build_mode, build_type, commands, result>>

sysVars == <<stuck_timers, base_attack_cooldown, gather_timers, build_timers,
            mineral_warning_cooldown, ai>>

gameVars == <<pc, ran, clockVars, team_minerals, minerals, events, uiVars,
             sysVars>>

vars == <<busVars, worldVars, fogVars, gameVars>>

-----------------------------------------------------------------------------
(* Bounds *)

\* most subscribe/unsubscribe/clear calls in one run
MaxBusCalls == 3
\* deepest nesting of publish calls (Python's recursion limit, scaled down)
MaxDepth == 2
\* most entities in the world (World.next_id is unbounded)
MaxEntities == 20
\* most entity changes between fog updates in a run of the fog specification
MaxFogChanges == 1
\* workers spawned beside each base by the scenario (starting_workers)
StartingWorkers == 2
\* vision radii, in tiles (data/units.json and data/buildings.json, scaled)
UnitVision == 1
BuildingVision == 2
\* hit points, damage, range and cooldown (seconds) of the same files
UnitHp == 20
BuildingHp == 60
SoldierDamage == 10
AttackRange == 1
AttackCooldown == 1
\* build times of the same files, in seconds
WorkerBuildTime == 8
SoldierBuildTime == 8
BarracksBuildTime == 8
\* minerals of a patch (MineralPatch.minerals, scaled down)
PatchMinerals == 16
\* minerals of each team at the start (starting_minerals of the scenario)
StartingMinerals == 200
\* seconds of game time one tick covers (Game.SIM_DT, scaled up)
SIM_DT == 4
\* ticks in one run
MaxTicks == 2
\* clicks, drags and build-mode keys in one run (a production request is
\* not counted: the queue bounds it)
MaxCommands == 2
\* points drawn for the scouting waypoints (12 in _do_scouting)
ScoutDraws == 2

\* what a worker can carry (carry_capacity of data/units.json): the load
\* of up to 8 minerals the specification has a worker take from a patch
CarryCapacity == 8

\* costs of a Worker, a Soldier and a Barracks
WorkerCost == 50
SoldierCost == 75
BarracksCost == 150

-----------------------------------------------------------------------------
(***************************************************************************)
(* Event bus                                                               *)
(***************************************************************************)

EventTypes == {"DeathEvent", "AttackEvent"}

\* The callables handed to subscribe.  What a callable does when invoked is
\* its own business; the bus sees three outcomes: it returns, it raises, or
\* it calls event_bus.publish with a new event before returning.
Handlers == {"on_death", "on_attack", "on_raise", "on_chain"}

HandlerRaises(h) == h = "on_raise"

HandlerPublishes(h) == h = "on_chain"

\* the event type a publishing handler publishes
ChainedType == "AttackEvent"

\* (a registry that forgets the event type: every handler gets every event)
HandlersForAnyType(subs, event_type) == subs["DeathEvent"] \o subs["AttackEvent"]

\* self._subscribers.get(event_type, [])
HandlersFor(subs, event_type) == subs[event_type]

\* list.remove(handler): drops the first occurrence; ValueError is swallowed
RECURSIVE RemoveFirst(_, _)
RemoveFirst(s, h) ==
    IF s = <<>> THEN <<>>
    ELSE IF Head(s) = h THEN Tail(s)
    ELSE <<Head(s)>> \o RemoveFirst(Tail(s), h)

\* EventBus.publish as a function of the registry: the invocations it makes,
\* in order, and whether an exception left it.  There is no try/except in
\* publish, so a raising handler ends the loop and the exception propagates.
\* A handler that publishes re-enters publish before it returns.
RECURSIVE DispatchFrom(_, _, _, _)
RECURSIVE InvokeHandler(_, _, _, _)
InvokeHandler(subs, h, event_type, depth) ==
    LET entry == <<[handler |-> h, event |-> event_type, depth |-> depth]>>
    IN  IF HandlerRaises(h) THEN [log |-> entry, raised |-> TRUE]
        ELSE IF HandlerPublishes(h) THEN
            IF depth + 1 > MaxDepth
            THEN [log |-> entry, raised |-> TRUE]   \* RecursionError
            ELSE LET inner == DispatchFrom(subs, ChainedType, 1, depth + 1)
                 IN  [log |-> entry \o inner.log, raised |-> inner.raised]
        ELSE [log |-> entry, raised |-> FALSE]

DispatchFrom(subs, event_type, i, depth) ==
    LET hs == HandlersFor(subs, event_type)
    IN  IF i > Len(hs) THEN [log |-> <<>>, raised |-> FALSE]
        ELSE LET r == InvokeHandler(subs, hs[i], event_type, depth)
             IN  IF r.raised THEN r
                 ELSE LET rest == DispatchFrom(subs, event_type, i + 1, depth)
                      IN  [log |-> r.log \o rest.log, raised |-> rest.raised]

Dispatch(subs, event_type) == DispatchFrom(subs, event_type, 1, 0)

InitBus ==
    /\ subscribers = [t \in EventTypes |-> <<>>]
    /\ history = <<>>
    /\ calls = <<>>
    /\ lastEvent = "none"
    /\ outcome = "none"
    /\ published_at = 0
    /\ tick_completed = TRUE

subscribe(event_type, handler) ==
    /\ Len(history) < MaxBusCalls
    /\ subscribers' = [subscribers EXCEPT ![event_type] = Append(@, handler)]
    /\ history' = Append(history, <<"subscribe", event_type, handler>>)
    /\ UNCHANGED <<calls, lastEvent, outcome, published_at, tick_completed>>
    /\ UNCHANGED <<worldVars, fogVars, gameVars>>

unsubscribe(event_type, handler) ==
    /\ Len(history) < MaxBusCalls
    /\ subscribers' = [subscribers EXCEPT ![event_type] = RemoveFirst(@, handler)]
    /\ history' = Append(history, <<"unsubscribe", event_type, handler>>)
    /\ UNCHANGED <<calls, lastEvent, outcome, published_at, tick_completed>>
    /\ UNCHANGED <<worldVars, fogVars, gameVars>>

clear ==
    /\ Len(history) < MaxBusCalls
    /\ subscribers' = [t \in EventTypes |-> <<>>]
    /\ history' = Append(history, <<"clear", "none", "none">>)
    /\ UNCHANGED <<calls, lastEvent, outcome, published_at, tick_completed>>
    /\ UNCHANGED <<worldVars, fogVars, gameVars>>

\* A system publishes an event from inside Game._tick.  Neither the systems
\* nor _tick catch anything, so the tick reaches its end only if publish
\* returns.
publish(event_type) ==
    LET r == Dispatch(subscribers, event_type)
    IN  /\ calls' = r.log
        /\ lastEvent' = event_type
        /\ outcome' = IF r.raised THEN "raised" ELSE "returned"
        /\ published_at' = Len(history)
        /\ tick_completed' = ~r.raised
        /\ UNCHANGED <<subscribers, history>>
        /\ UNCHANGED <<worldVars, fogVars, gameVars>>

NextBus ==
    \/ \E t \in EventTypes, h \in Handlers : subscribe(t, h)
    \/ \E t \in EventTypes, h \in Handlers : unsubscribe(t, h)
    \/ clear
    \/ \E t \in EventTypes : publish(t)


-----------------------------------------------------------------------------
(***************************************************************************)
(* Map, entities and scenario                                              *)
(*                                                                         *)
(* Positions are kept at tile resolution: an entity's x, y are the integer *)
(* coordinates the code obtains with int(entity.x), int(entity.y).         *)
(***************************************************************************)

None == <<>>

Teams == {1, 2}

\* GameMap.width, GameMap.height and the rock tiles of GameMap.tiles
MapWidth == 6
MapHeight == 6
Rocks == {<<0, 2>>}

Tiles == (0..(MapWidth - 1)) \X (0..(MapHeight - 1))

\* the GameMap of the scenario
ScenarioMap == [width |-> MapWidth, height |-> MapHeight, rocks |-> Rocks]

\* GameMap.is_walkable
is_walkable(x, y) ==
    /\ 0 <= x /\ x < game_map.width
    /\ 0 <= y /\ y < game_map.height
    /\ <<x, y>> \notin game_map.rocks

\* GameMap.is_buildable with the default size of 2
is_buildable(x, y) ==
    \A dy \in 0..1 : \A dx \in 0..1 : is_walkable(x + dx, y + dy)

IsUnit(e) == e.kind \in {"Worker", "Soldier"}

IsBuilding(e) == e.kind \in {"Base", "Barracks"}

\* UNIT_STATS and BUILDING_STATS are loaded from data/units.json and
\* data/buildings.json; the values are the scaled ones of the bounds above.
VisionOf(kind) == IF kind \in {"Worker", "Soldier"} THEN UnitVision ELSE BuildingVision

HpOf(kind) == IF kind \in {"Worker", "Soldier"} THEN UnitHp ELSE BuildingHp

\* UNIT_STATS[unit_type]["cost"], BUILDING_STATS[building_type]["cost"]
\* (buildings and units that cost nothing)
CostOfNothing(kind) == 0

CostOf(kind) ==
    IF kind = "Worker" THEN WorkerCost
    ELSE IF kind = "Soldier" THEN SoldierCost
    ELSE BarracksCost

\* Base.build_time, Barracks.build_time, BUILDING_STATS[...]["build_time"]
BuildTimeOf(kind) ==
    IF kind \in {"Base", "Worker"} THEN WorkerBuildTime
    ELSE IF kind = "Soldier" THEN SoldierBuildTime
    ELSE BarracksBuildTime

\* create_entity: the constructors of Worker, Soldier, Base and Barracks.
\* One record shape serves the four classes; a field a class does not have
\* keeps its initial value.  target and gather_target hold an id, 0 for None.
NewEntity(kind, team, x, y) ==
    [kind |-> kind, team |-> team, x |-> x, y |-> y, hp |-> HpOf(kind),
     alive |-> TRUE, vision |-> VisionOf(kind),
     destination |-> None, path |-> <<>>, target |-> 0,
     carrying |-> 0,
     carry_capacity |-> IF kind = "Worker" THEN CarryCapacity ELSE 0,
     gather_target |-> 0, build_target |-> None,
     state |-> "idle", waiting_for_minerals |-> FALSE,
     cooldown_remaining |-> 0,
     production_queue |-> <<>>, production_progress |-> 0]

\* World.load_map: a MineralPatch for every 'M' cell of the map
PatchPos == << <<0, 1>>, <<5, 2>> >>

ScenarioMinerals ==
    [i \in 1..Len(PatchPos) |->
        [x |-> PatchPos[i][1], y |-> PatchPos[i][2], minerals |-> PatchMinerals]]

\* MineralPatch.depleted
\* (a patch that never counts as depleted)
depleted_never(patch) == FALSE

depleted(patch) == patch.minerals <= 0

Dist2(ax, ay, bx, by) == (ax - bx) * (ax - bx) + (ay - by) * (ay - by)

\* World.get_nearest_mineral: the first non-depleted patch at the least
\* distance, 0 when there is none
get_nearest_mineral(patches, x, y) ==
    LET live == {i \in 1..Len(patches) : ~depleted(patches[i])}
        d(i) == Dist2(patches[i].x, patches[i].y, x, y)
    IN  IF live = {} THEN 0
        ELSE CHOOSE i \in live :
                 \A j \in live : d(i) < d(j) \/ (d(i) = d(j) /\ i <= j)

\* World.load_scenario: per team a Base at base_pos and the starting workers
\* at (base_x + 1 + i, base_y + 1)
BasePos(team) == IF team = 1 THEN <<1, 0>> ELSE <<3, 3>>

ScenarioTeam(team) ==
    <<NewEntity("Base", team, BasePos(team)[1], BasePos(team)[2])>> \o
    [i \in 1..StartingWorkers |->
        NewEntity("Worker", team, BasePos(team)[1] + i, BasePos(team)[2] + 1)]

ScenarioEntities == ScenarioTeam(1) \o ScenarioTeam(2)

\* Game.setup: after load_map and load_scenario every worker is sent to its
\* nearest mineral patch
setup(ents, patches) ==
    [i \in 1..Len(ents) |->
        LET e == ents[i]
            mineral == get_nearest_mineral(patches, e.x, e.y)
        IN  IF e.kind = "Worker" /\ mineral # 0
            THEN [e EXCEPT !.gather_target = mineral,
                           !.state = "moving_to_mineral",
                           !.destination = <<patches[mineral].x, patches[mineral].y>>]
            ELSE e]

EntityIds == 1..Len(entities)

\* World.get_entities_by_team: the live entities of a team, in id order
IsLiveOfTeam(e, team) == e.team = team /\ e.alive

\* (the live units of the team, its buildings left out)
get_units_by_team(ents, team) ==
    LET Keep(e) == IsLiveOfTeam(e, team) /\ IsUnit(e) IN SelectSeq(ents, Keep)

\* World.get_entities_by_team
get_entities_by_team(ents, team) ==
    LET Keep(e) == IsLiveOfTeam(e, team) IN SelectSeq(ents, Keep)

-----------------------------------------------------------------------------
(***************************************************************************)
(* Fog of war                                                              *)
(***************************************************************************)

HIDDEN == 0
EXPLORED == 1
VISIBLE == 2

\* FogOfWar.__init__
NewFog == [c \in Tiles |-> HIDDEN]

\* (a demotion that forgets the tile was ever seen)
DemoteToHidden(state) == IF state = VISIBLE THEN HIDDEN ELSE state

\* update_visibility, first loop: VISIBLE becomes EXPLORED
Demote(state) == IF state = VISIBLE THEN EXPLORED ELSE state

\* (a square instead of a disc)
InVisionSquare(dx, dy, vision) == TRUE

\* update_visibility: dx * dx + dy * dy <= vision * vision
InVision(dx, dy, vision) == dx * dx + dy * dy <= vision * vision

\* update_visibility, inner loops for one entity: the in-bounds tiles
\* (cx + dx, cy + dy) with dx, dy in -vision..vision inside the disc
RevealedBy(e) ==
    {<<e.x + d[1], e.y + d[2]>> : d \in
        {d \in ((0 - e.vision)..e.vision) \X ((0 - e.vision)..e.vision) :
            /\ InVision(d[1], d[2], e.vision)
            /\ 0 <= e.x + d[1] /\ e.x + d[1] < MapWidth
            /\ 0 <= e.y + d[2] /\ e.y + d[2] < MapHeight}}

\* update_visibility, second loop: entity after entity, skipping dead ones
RECURSIVE Reveal(_, _)
Reveal(grid, ents) ==
    IF ents = <<>> THEN grid
    ELSE LET e == Head(ents)
                 revealed == RevealedBy(e)
             g == IF ~e.alive THEN grid
                  ELSE [c \in Tiles |->
                           IF c \in revealed THEN VISIBLE ELSE grid[c]]
         IN  Reveal(g, Tail(ents))

\* FogOfWar.update_visibility
update_visibility(grid, ents) ==
    Reveal([c \in Tiles |-> Demote(grid[c])], ents)

\* World.update_fog_of_war
update_fog_of_war(fogs, ents) ==
    [t \in Teams |-> update_visibility(fogs[t], get_entities_by_team(ents, t))]

-----------------------------------------------------------------------------
(***************************************************************************)
(* PathFinder                                                              *)
(*                                                                         *)
(* Costs are kept in thousandths: 1.0 is 1000, 1.414 is 1414, 0.414 is 414.*)
(***************************************************************************)

Abs(n) == IF n < 0 THEN 0 - n ELSE n

Max(a, b) == IF a >= b THEN a ELSE b

Min(a, b) == IF a <= b THEN a ELSE b

\* dict[key] = value and del dict[key]
Put(d, k, v) == [x \in (DOMAIN d) \cup {k} |-> IF x = k THEN v ELSE d[x]]

Del(d, k) == [x \in (DOMAIN d) \ {k} |-> d[x]]

EmptyDict == [x \in {} |-> 0]

\* PathFinder.DIRECTIONS, in the order the neighbours are tried
DIRECTIONS ==
    << <<-1, -1, 1414>>, <<0, -1, 1000>>, <<1, -1, 1414>>, <<-1, 0, 1000>>,
       <<1, 0, 1000>>, <<-1, 1, 1414>>, <<0, 1, 1000>>, <<1, 1, 1414>> >>

\* (a heuristic that counts every step of a diagonal as two)
heuristic_manhattan(a, b) ==
    2000 * (Abs(a[1] - b[1]) + Abs(a[2] - b[2]))

\* PathFinder._heuristic: max(dx, dy) + 0.414 * min(dx, dy)
heuristic(a, b) ==
    LET dx == Abs(a[1] - b[1])
        dy == Abs(a[2] - b[2])
    IN  1000 * Max(dx, dy) + 414 * Min(dx, dy)

\* the offsets of the rings 1..(rings - 1) around a tile, as the loops
\* "for radius / for dx / for dy" meet them: by radius, then dx, then dy
RingOffsets(rings) ==
    {d \in ((1 - rings)..(rings - 1)) \X ((1 - rings)..(rings - 1)) :
        d # <<0, 0>>}

RingBefore(a, b) ==
    LET ra == Max(Abs(a[1]), Abs(a[2]))
        rb == Max(Abs(b[1]), Abs(b[2]))
    IN  \/ ra < rb
        \/ ra = rb /\ a[1] < b[1]
        \/ ra = rb /\ a[1] = b[1] /\ a[2] <= b[2]

\* (the walkable tile of the rings that the loops meet last)
find_nearest_walkable_last(pos) ==
    LET ok == {d \in RingOffsets(10) : is_walkable(pos[1] + d[1], pos[2] + d[2])}
    IN  IF ok = {} THEN None
        ELSE LET d == CHOOSE d \in ok : \A o \in ok : RingBefore(o, d)
             IN  <<pos[1] + d[1], pos[2] + d[2]>>

\* PathFinder._find_nearest_walkable: radius in range(1, 10); None if no
\* tile of the rings is walkable
find_nearest_walkable(pos) ==
    LET ok == {d \in RingOffsets(10) : is_walkable(pos[1] + d[1], pos[2] + d[2])}
    IN  IF ok = {} THEN None
        ELSE LET d == CHOOSE d \in ok : \A o \in ok : RingBefore(d, o)
             IN  <<pos[1] + d[1], pos[2] + d[2]>>

\* heapq.heappop on entries (f_score, counter, node)
HeapMin(open_set) ==
    CHOOSE e \in open_set :
        \A o \in open_set : e[1] < o[1] \/ (e[1] = o[1] /\ e[2] <= o[2])

\* find_path, the loop over DIRECTIONS for the node just popped
RECURSIVE Expand(_, _, _, _)
Expand(st, current, goal, k) ==
    IF k > Len(DIRECTIONS) THEN st
    ELSE LET d == DIRECTIONS[k]
             neighbor == <<current[1] + d[1], current[2] + d[2]>>
             tentative_g == st.g_score[current] + d[3]
         IN  IF ~is_walkable(neighbor[1], neighbor[2])
             THEN Expand(st, current, goal, k + 1)
             ELSE IF \/ neighbor \notin DOMAIN st.g_score
                     \/ tentative_g < st.g_score[neighbor]
             THEN Expand(
                    [open_set |-> st.open_set \cup
                         {<<tentative_g + heuristic(neighbor, goal),
                            st.counter + 1, neighbor>>},
                     came_from |-> Put(st.came_from, neighbor, current),
                     g_score |-> Put(st.g_score, neighbor, tentative_g),
                     counter |-> st.counter + 1],
                    current, goal, k + 1)
             ELSE Expand(st, current, goal, k + 1)

\* PathFinder._reconstruct_path: the nodes from the start to current, without
\* the start
RECURSIVE PathTo(_, _)
PathTo(came_from, current) ==
    IF current \in DOMAIN came_from
    THEN Append(PathTo(came_from, came_from[current]), current)
    ELSE <<current>>

\* (a path that keeps the start)
reconstruct_path_whole(came_from, current) == PathTo(came_from, current)

reconstruct_path(came_from, current) == Tail(PathTo(came_from, current))

\* find_path, the while loop
RECURSIVE AStar(_, _)
AStar(st, goal) ==
    IF st.open_set = {} THEN <<>>
    ELSE LET top == HeapMin(st.open_set)
             current == top[3]
         IN  IF current = goal THEN reconstruct_path(st.came_from, current)
             ELSE AStar(Expand([st EXCEPT !.open_set = @ \ {top}],
                               current, goal, 1), goal)

\* PathFinder.find_path; start and goal are tiles
find_path(start, goal) ==
    IF start = goal THEN <<>>
    ELSE LET g == IF is_walkable(goal[1], goal[2]) THEN goal
                  ELSE find_nearest_walkable(goal)
         IN  IF g = None THEN <<>>
             ELSE AStar([open_set |-> {<<0, 0, start>>},
                         came_from |-> EmptyDict,
                         g_score |-> Put(EmptyDict, start, 0),
                         counter |-> 0], g)


-----------------------------------------------------------------------------
(***************************************************************************)
(* The systems                                                             *)
(*                                                                         *)
(* A system's update is a function of the world it finds: a record w of    *)
(* World.entities, World.minerals, World.team_minerals, the events         *)
(* published so far in the tick, and the private dicts of the systems.     *)
(* Every loop "for entity in self.world.entities.values()" visits the ids  *)
(* in increasing order, the order in which the entities were spawned.      *)
(*                                                                         *)
(* event_bus.publish appends to w.events: the handlers the game subscribes *)
(* (full/core/effects.py) read the event, neither raise nor publish, and   *)
(* touch nothing of the world.                                             *)
(***************************************************************************)

\* An event: its class, the entity it is about, the team, and two more of
\* its fields; an AIDecisionEvent carries its decision_type in "what".
Event(type, id, team, a, b) ==
    [type |-> type, id |-> id, team |-> team, a |-> a, b |-> b, what |-> ""]

Publish(w, ev) == [w EXCEPT !.events = Append(@, ev)]

\* World.get_base: the first live Base of the team, 0 for None
get_base(ents, team) ==
    LET bases == {i \in 1..Len(ents) :
                     ents[i].kind = "Base" /\ ents[i].team = team /\ ents[i].alive}
    IN  IF bases = {} THEN 0 ELSE CHOOSE i \in bases : \A j \in bases : i <= j

\* World.get_enemies_in_range, as the set of ids; range2 is range_ * range_
get_enemies_in_range(ents, id, range2) ==
    {o \in 1..Len(ents) :
        /\ ents[o].alive
        /\ ents[o].team # ents[id].team
        /\ Dist2(ents[o].x, ents[o].y, ents[id].x, ents[id].y) <= range2}

\* min(enemies, key=squared distance): the first of the nearest
nearest_of(ents, id, among) ==
    LET d(o) == Dist2(ents[o].x, ents[o].y, ents[id].x, ents[id].y)
    IN  CHOOSE o \in among :
            \A q \in among : d(o) < d(q) \/ (d(o) = d(q) /\ o <= q)

\* Entity.take_damage
take_damage(e, amount) ==
    IF e.hp - amount <= 0 THEN [e EXCEPT !.hp = 0, !.alive = FALSE]
    ELSE [e EXCEPT !.hp = @ - amount]

(***************************************************************************)
(* MovementSystem.  A unit covers speed * dt >= sqrt(2) tiles in a tick,   *)
(* so a step takes it from its tile onto the next waypoint.                *)
(***************************************************************************)

\* MovementSystem.STUCK_THRESHOLD, in seconds
STUCK_THRESHOLD == 16

\* (a stuck unit left where it is)
unstick_unit_in_place(ents, id) == ents[id]

\* MovementSystem._unstick_unit: radius in range(1, 5); a tile is occupied
\* when another live entity is less than one tile away
unstick_unit(ents, id) ==
    LET e == ents[id]
        occupied(x, y) ==
            \E o \in 1..Len(ents) :
                o # id /\ ents[o].alive /\ Dist2(ents[o].x, ents[o].y, x, y) < 1
        ok == {d \in RingOffsets(5) :
                  /\ is_walkable(e.x + d[1], e.y + d[2])
                  /\ ~occupied(e.x + d[1], e.y + d[2])}
    IN  IF ok = {} THEN e
        ELSE LET d == CHOOSE d \in ok : \A o \in ok : RingBefore(d, o)
             IN  [e EXCEPT !.x = @ + d[1], !.y = @ + d[2], !.path = <<>>]

\* MovementSystem._update_stuck_detection; moving more than
\* STUCK_MOVE_DISTANCE (0.3) is leaving the tile
update_stuck_detection(w, id) ==
    LET e == w.entities[id]
    IN  IF e.destination = None /\ e.path = <<>>
        THEN [w EXCEPT !.stuck_timers = Del(@, id)]
        ELSE IF id \notin DOMAIN w.stuck_timers
        THEN [w EXCEPT !.stuck_timers = Put(@, id, <<0, e.x, e.y>>)]
        ELSE LET t == w.stuck_timers[id]
             IN  IF Dist2(e.x, e.y, t[2], t[3]) > 0
                 THEN [w EXCEPT !.stuck_timers = Put(@, id, <<0, e.x, e.y>>)]
                 ELSE IF t[1] + SIM_DT >= STUCK_THRESHOLD
                 THEN [w EXCEPT !.entities[id] = unstick_unit(w.entities, id),
                                !.stuck_timers = Del(@, id)]
                 ELSE [w EXCEPT !.stuck_timers =
                                    Put(@, id, <<t[1] + SIM_DT, t[2], t[3]>>)]

\* MovementSystem.update, the body of the loop for one live unit
move_unit(w, id) ==
    LET w1 == update_stuck_detection(w, id)
        e == w1.entities[id]
    IN  IF e.path # <<>> THEN
            LET next_waypoint == e.path[1]
            IN  IF next_waypoint = <<e.x, e.y>>
                THEN [w1 EXCEPT !.entities[id].path = Tail(e.path)]
                ELSE IF is_walkable(next_waypoint[1], next_waypoint[2])
                THEN [w1 EXCEPT !.entities[id].x = next_waypoint[1],
                                !.entities[id].y = next_waypoint[2]]
                ELSE [w1 EXCEPT !.entities[id].path =
                         IF e.destination # None
                         THEN find_path(<<e.x, e.y>>, e.destination)
                         ELSE <<>>]
        ELSE IF e.destination # None THEN
            IF e.destination = <<e.x, e.y>>
            THEN [w1 EXCEPT !.entities[id].destination = None]
            ELSE LET path == find_path(<<e.x, e.y>>, e.destination)
                 IN  [w1 EXCEPT !.entities[id].path = path,
                                !.entities[id].destination =
                                    IF path = <<>> THEN None ELSE e.destination]
        ELSE w1

RECURSIVE MovementFrom(_, _)
MovementFrom(w, id) ==
    IF id > Len(w.entities) THEN w
    ELSE LET e == w.entities[id]
         IN  MovementFrom(
                 IF ~IsUnit(e) \/ ~e.alive
                 THEN [w EXCEPT !.stuck_timers = Del(@, id)]
                 ELSE move_unit(w, id),
                 id + 1)

\* MovementSystem.update
MovementUpdate(w) == MovementFrom(w, 1)


(***************************************************************************)
(* CombatSystem                                                            *)
(***************************************************************************)

\* the cooldown of the base-under-attack alert, in seconds
BASE_ALERT_COOLDOWN == 10

\* (an alert whose cooldown is kept per attacker)
base_alert_per_attacker(w, attacker, target, now) ==
    LET last_alert == IF attacker \in DOMAIN w.base_attack_cooldown
                      THEN w.base_attack_cooldown[attacker] ELSE 0
    IN  IF now - last_alert >= BASE_ALERT_COOLDOWN
        THEN Publish([w EXCEPT !.base_attack_cooldown = Put(@, attacker, now)],
                     Event("BaseUnderAttackEvent", target,
                           w.entities[target].team, attacker, 0))
        ELSE w

\* CombatSystem.update, the alert after an attack on a Base
base_alert(w, attacker, target, now) ==
    LET last_alert == IF target \in DOMAIN w.base_attack_cooldown
                      THEN w.base_attack_cooldown[target] ELSE 0
    IN  IF now - last_alert >= BASE_ALERT_COOLDOWN
        THEN Publish([w EXCEPT !.base_attack_cooldown = Put(@, target, now)],
                     Event("BaseUnderAttackEvent", target,
                           w.entities[target].team, attacker, 0))
        ELSE w

\* (a list of the dead that takes every target hit)
record_death_always(dead, hit, target, killer) == Append(dead, <<target, killer>>)

\* CombatSystem.update: dead_entities gets the target an attack has killed
record_death(dead, hit, target, killer) ==
    IF hit.alive THEN dead ELSE Append(dead, <<target, killer>>)

\* CombatSystem.update, the body of the loop for one live soldier; st holds
\* the world and the dead_entities list
combat_soldier(st, id, now) ==
    LET w == st.w
        e0 == w.entities[id]
        cooldown == IF e0.cooldown_remaining > 0
                    THEN e0.cooldown_remaining - SIM_DT
                    ELSE e0.cooldown_remaining
        enemies == get_enemies_in_range(w.entities, id,
                       (AttackRange * 2) * (AttackRange * 2))
        target == IF e0.target # 0 THEN e0.target
                  ELSE IF enemies # {} THEN nearest_of(w.entities, id, enemies)
                  ELSE 0
        e1 == [e0 EXCEPT !.cooldown_remaining = cooldown, !.target = target]
    IN  IF target = 0 THEN [st EXCEPT !.w.entities[id] = e1]
        ELSE LET t == w.entities[target]
             IN  IF ~t.alive
                 THEN [st EXCEPT !.w.entities[id] = [e1 EXCEPT !.target = 0]]
                 ELSE IF Dist2(t.x, t.y, e1.x, e1.y) > AttackRange * AttackRange
                 THEN [st EXCEPT !.w.entities[id] =
                                     [e1 EXCEPT !.destination = <<t.x, t.y>>]]
                 ELSE IF cooldown > 0
                 THEN [st EXCEPT !.w.entities[id] =
                           [e1 EXCEPT !.destination = None, !.path = <<>>]]
                 ELSE
                   LET hit == take_damage(t, SoldierDamage)
                       w1 == [w EXCEPT
                                 !.entities[id] =
                                     [e1 EXCEPT !.destination = None,
                                                !.path = <<>>,
                                                !.cooldown_remaining = AttackCooldown],
                                 !.entities[target] = hit]
                       w2 == Publish(w1, Event("AttackEvent", id, e1.team,
                                               target, hit.hp))
                       w3 == IF t.kind = "Base"
                             THEN base_alert(w2, id, target, now) ELSE w2
                   IN  [w |-> w3,
                        dead |-> record_death(st.dead, hit, target, id)]

RECURSIVE CombatFrom(_, _, _)
CombatFrom(st, id, now) ==
    IF id > Len(st.w.entities) THEN st
    ELSE LET e == st.w.entities[id]
         IN  CombatFrom(IF e.kind # "Soldier" \/ ~e.alive THEN st
                        ELSE combat_soldier(st, id, now),
                        id + 1, now)

\* CombatSystem.update, the loop over dead_entities
RECURSIVE PublishDeaths(_, _)
PublishDeaths(w, dead) ==
    IF dead = <<>> THEN w
    ELSE PublishDeaths(
             Publish(w, [Event("DeathEvent", Head(dead)[1],
                               w.entities[Head(dead)[1]].team, Head(dead)[2], 0)
                         EXCEPT !.what = w.entities[Head(dead)[1]].kind]),
             Tail(dead))

\* CombatSystem.update
CombatUpdate(w, now) ==
    LET st == CombatFrom([w |-> w, dead |-> <<>>], 1, now)
    IN  PublishDeaths(st.w, st.dead)

(***************************************************************************)
(* ResourceSystem                                                          *)
(***************************************************************************)

\* ResourceSystem.GATHER_TIME (seconds) and GATHER_AMOUNT
GATHER_TIME == 2
GATHER_AMOUNT == 8

\* (a worker that takes all its patch holds)
gathered_all(patch) == patch.minerals

\* (a worker that takes a full load whatever its patch holds)
gathered_full(patch) == GATHER_AMOUNT

\* ResourceSystem._process_worker: what a worker takes from its patch
gathered(patch) ==
    IF GATHER_AMOUNT <= patch.minerals THEN GATHER_AMOUNT ELSE patch.minerals

PatchXY(w, p) == <<w.minerals[p].x, w.minerals[p].y>>

\* the branch taken when the gather target is None or depleted; the worker
\* loses its destination only on the way to the mineral
mine_gone(w, id, clear_destination) ==
    LET worker == w.entities[id]
        p == worker.gather_target
    IN  IF p # 0 /\ depleted(w.minerals[p])
        THEN Publish(
                 [w EXCEPT !.entities[id].gather_target = 0,
                           !.entities[id].destination =
                               IF clear_destination THEN None ELSE @,
                           !.entities[id].state = "idle"],
                 Event("MineDepletedEvent", id, worker.team,
                       w.minerals[p].x, w.minerals[p].y))
        ELSE [w EXCEPT !.entities[id].state = "idle"]

\* ResourceSystem._process_worker
process_worker(w, id) ==
    LET worker == w.entities[id]
        base == get_base(w.entities, worker.team)
        p == worker.gather_target
    IN  IF base = 0 THEN w
        ELSE IF worker.state = "idle" THEN
            IF p # 0
            THEN [w EXCEPT !.entities[id].state = "moving_to_mineral",
                           !.entities[id].destination = PatchXY(w, p)]
            ELSE IF worker.carrying > 0
            THEN [w EXCEPT !.entities[id].state = "returning",
                           !.entities[id].destination =
                               <<w.entities[base].x, w.entities[base].y>>]
            ELSE w
        ELSE IF worker.state = "moving_to_mineral" THEN
            IF p = 0 \/ depleted(w.minerals[p]) THEN mine_gone(w, id, TRUE)
            \* dx * dx + dy * dy < 1.5
            ELSE IF 2 * Dist2(w.minerals[p].x, w.minerals[p].y,
                              worker.x, worker.y) < 3
            THEN Publish(
                     [w EXCEPT !.entities[id].state = "gathering",
                               !.entities[id].destination = None,
                               !.gather_timers = Put(@, id, 0)],
                     Event("GatheringStartedEvent", id, worker.team, 0, 0))
            ELSE w
        ELSE IF worker.state = "gathering" THEN
            IF p = 0 \/ depleted(w.minerals[p]) THEN mine_gone(w, id, FALSE)
            ELSE LET timer == (IF id \in DOMAIN w.gather_timers
                               THEN w.gather_timers[id] ELSE 0) + SIM_DT
                     amount == gathered(w.minerals[p])
                 IN  IF timer >= GATHER_TIME
                     THEN [w EXCEPT !.gather_timers = Put(@, id, timer),
                                    !.entities[id].carrying = amount,
                                    !.minerals[p].minerals = @ - amount,
                                    !.entities[id].state = "returning",
                                    !.entities[id].destination =
                                        <<w.entities[base].x, w.entities[base].y>>]
                     ELSE [w EXCEPT !.gather_timers = Put(@, id, timer)]
        ELSE IF worker.state = "returning" THEN
            \* dx * dx + dy * dy < 2.0
            IF Dist2(w.entities[base].x, w.entities[base].y,
                     worker.x, worker.y) < 2
            THEN LET total == w.team_minerals[worker.team] + worker.carrying
                     w1 == Publish(
                               [w EXCEPT !.team_minerals[worker.team] = total,
                                         !.entities[id].carrying = 0],
                               Event("ResourceCollectedEvent", id, worker.team,
                                     worker.carrying, total))
                 IN  IF p # 0 /\ ~depleted(w.minerals[p])
                     THEN [w1 EXCEPT !.entities[id].state = "moving_to_mineral",
                                     !.entities[id].destination = PatchXY(w, p)]
                     ELSE mine_gone(w1, id, FALSE)
            ELSE w
        ELSE w

RECURSIVE ResourceFrom(_, _)
ResourceFrom(w, id) ==
    IF id > Len(w.entities) THEN w
    ELSE LET e == w.entities[id]
         IN  ResourceFrom(IF e.kind # "Worker" \/ ~e.alive THEN w
                          ELSE process_worker(w, id),
                          id + 1)

\* ResourceSystem.update
ResourceUpdate(w) == ResourceFrom(w, 1)


(***************************************************************************)
(* ProductionSystem                                                        *)
(***************************************************************************)

\* World.spawn_entity: the new entity gets the next id; SpawnEvent
spawn_entity(w, kind, team, x, y) ==
    Publish([w EXCEPT !.entities = Append(@, NewEntity(kind, team, x, y))],
            Event("SpawnEvent", Len(w.entities) + 1, team, x, y))

\* int(building.x + random.uniform(-1, 1)) - int(building.x)
SpawnJitter == {-1, 0, 1}

\* (a queue that takes a request whatever its length)
QueueRoomAlways(queue) == TRUE

\* Building.queue_production: len(self.production_queue) < MAX_QUEUE_SIZE
MAX_QUEUE_SIZE == 5

QueueRoom(queue) == Len(queue) < MAX_QUEUE_SIZE

\* Building.queue_production; Base.start_production, Barracks.start_production
queue_production(building, unit_type) ==
    IF QueueRoom(building.production_queue)
    THEN [building EXCEPT !.production_queue = Append(@, unit_type)]
    ELSE building

ProducedBy(kind) == IF kind = "Base" THEN "Worker" ELSE "Soldier"

start_production(building) == queue_production(building, ProducedBy(building.kind))

\* what Building.queue_production returns
queue_production_result(building) == QueueRoom(building.production_queue)

\* (a completion that leaves the progress of the finished item in place)
finish_item_keeps_progress(b) == [b EXCEPT !.production_queue = Tail(@)]

\* ProductionSystem.update, "Complete production": the item leaves the
\* queue and the progress starts again from 0
finish_item(b) ==
    [b EXCEPT !.production_queue = Tail(@),
              !.production_progress = 0,
              !.waiting_for_minerals = FALSE]

\* ProductionSystem.update from "Complete production" on: the unit appears
\* at (building.x + offset, building.y + 2) whatever tile that is; a Worker
\* is sent to its nearest mineral.  No building has a rally point: nothing
\* assigns Building.rally_point.
complete_production(w, id, offset) ==
    LET b == w.entities[id]
        completed_type == Head(b.production_queue)
        w1 == [w EXCEPT !.entities[id] = finish_item(@)]
        w2 == spawn_entity(w1, completed_type, b.team, b.x + offset, b.y + 2)
        unit == Len(w2.entities)
        w3 == Publish(Publish(w2,
                  Event("ProductionCompletedEvent", id, b.team, unit, 0)),
                  Event("UnitReadyEvent", unit, b.team, 0, 0))
        mineral == get_nearest_mineral(w.minerals, b.x + offset, b.y + 2)
    IN  IF completed_type = "Worker" /\ mineral # 0
        THEN [w3 EXCEPT !.entities[unit].gather_target = mineral,
                        !.entities[unit].state = "moving_to_mineral",
                        !.entities[unit].destination = PatchXY(w, mineral)]
        ELSE w3

\* (a test that refuses a team holding exactly the cost)
CanAffordStrict(total, cost) == total > cost

\* (production that takes the cost without looking at the total)
CanAffordAlways(total, cost) == TRUE

\* the cost check of production and of building placement:
\* not (self.world.team_minerals[entity.team] < cost)
CanAfford(total, cost) == ~(total < cost)

\* ProductionSystem.update, the body of the loop for one live building.
\* production_progress counts the seconds of build time accrued, so that
\* "progress >= 1.0" reads "progress >= build_time".
produce(w, id, offset) ==
    LET b == w.entities[id]
        unit_type == Head(b.production_queue)
        cost == CostOf(unit_type)
        starting == b.production_progress = 0
    IN  IF b.production_queue = <<>>
        THEN [w EXCEPT !.entities[id].waiting_for_minerals = FALSE]
        ELSE IF starting /\ ~CanAfford(w.team_minerals[b.team], cost)
        THEN [w EXCEPT !.entities[id].waiting_for_minerals = TRUE]
        ELSE LET w1 == IF starting
                       THEN Publish(
                                [w EXCEPT !.team_minerals[b.team] = @ - cost],
                                Event("ProductionStartedEvent", id, b.team,
                                      Len(b.production_queue), 0))
                       ELSE w
                 progress == b.production_progress + SIM_DT
             IN  IF progress >= BuildTimeOf(b.kind)
                 THEN complete_production(w1, id, offset)
                 ELSE [w1 EXCEPT !.entities[id].production_progress = progress,
                                 !.entities[id].waiting_for_minerals = FALSE]

RECURSIVE ProductionFrom(_, _, _, _)
ProductionFrom(w, id, last, offsets) ==
    IF id > last THEN w
    ELSE LET e == w.entities[id]
         IN  ProductionFrom(IF ~IsBuilding(e) \/ ~e.alive THEN w
                            ELSE produce(w, id, IF id \in DOMAIN offsets
                                               THEN offsets[id] ELSE 0),
                            id + 1, last, offsets)

\* ProductionSystem.update.  The loop runs over list(entities.values()), a
\* copy made before the loop: the units the update spawns are not visited.
\* offsets gives every building its draw of random.uniform.  The
\* _waiting_for_minerals dict of the system stays empty: nothing adds to it.
ProductionUpdate(w, offsets) ==
    ProductionFrom(w, 1, Len(w.entities), offsets)

\* the buildings for which the draw matters: they complete a unit in this
\* update if they can pay for it
Completing(ents) ==
    {i \in 1..Len(ents) :
        /\ IsBuilding(ents[i]) /\ ents[i].alive
        /\ ents[i].production_queue # <<>>
        /\ ents[i].production_progress + SIM_DT >= BuildTimeOf(ents[i].kind)}

(***************************************************************************)
(* BuildingPlacementSystem                                                 *)
(***************************************************************************)

\* the cooldown of the waiting-for-minerals warning, in seconds
MINERAL_WARNING_COOLDOWN == 10

\* BuildingPlacementSystem.update, first loop: the cooldowns run down
tick_cooldowns(d) ==
    [k \in {k \in DOMAIN d : d[k] - SIM_DT > 0} |-> d[k] - SIM_DT]

\* BuildingPlacementSystem.update, the check for entities at the build site
\* (a site that is never found taken)
site_never_occupied(ents, id, bx, by) == FALSE

site_occupied(ents, id, bx, by) ==
    \E o \in 1..Len(ents) :
        o # id /\ ents[o].alive /\ Dist2(ents[o].x, ents[o].y, bx, by) < 2

\* BuildingPlacementSystem.update, the body of the loop for one live worker
place_building(w, id) ==
    LET e == w.entities[id]
        building_type == e.build_target[1]
        bx == e.build_target[2]
        by == e.build_target[3]
        cost == CostOf(building_type)
    IN  IF e.build_target = None
        THEN [w EXCEPT !.entities[id].waiting_for_minerals = FALSE]
        ELSE IF \/ ~(/\ 0 <= bx /\ bx < game_map.width
                      /\ 0 <= by /\ by < game_map.height)
                \/ ~is_buildable(bx, by)
        THEN [w EXCEPT !.entities[id].build_target = None,
                       !.entities[id].waiting_for_minerals = FALSE]
        \* dist > 2.0
        ELSE IF Dist2(bx, by, e.x, e.y) > 4
        THEN [w EXCEPT !.entities[id].destination = <<bx, by>>,
                       !.entities[id].waiting_for_minerals = FALSE]
        ELSE IF ~CanAfford(w.team_minerals[e.team], cost)
        THEN LET w1 == [w EXCEPT !.entities[id].destination = None,
                                 !.entities[id].waiting_for_minerals = TRUE]
             IN  IF e.team = 1 /\ id \notin DOMAIN w.mineral_warning_cooldown
                 THEN Publish(
                          [w1 EXCEPT !.mineral_warning_cooldown =
                                         Put(@, id, MINERAL_WARNING_COOLDOWN)],
                          Event("WorkerWaitingForMineralsEvent", id, e.team,
                                cost, 0))
                 ELSE w1
        ELSE LET w1 == [w EXCEPT !.entities[id].destination = None,
                                 !.entities[id].waiting_for_minerals = FALSE]
                 w2 == IF id \notin DOMAIN w.build_timers
                       THEN Publish(w1, Event("BuildingConstructionStartEvent",
                                              id, e.team, bx, by))
                       ELSE w1
                 timer == (IF id \in DOMAIN w.build_timers
                           THEN w.build_timers[id] ELSE 0) + SIM_DT
             IN  IF site_occupied(w.entities, id, bx, by)
                 THEN [w2 EXCEPT !.entities[id].build_target = None,
                                 !.build_timers = Put(@, id, 0)]
                 ELSE IF timer >= BuildTimeOf(building_type)
                 THEN LET w3 == spawn_entity(
                                    [w2 EXCEPT !.team_minerals[e.team] = @ - cost],
                                    building_type, e.team, bx, by)
                      IN  [Publish(w3, Event("BuildingPlacedEvent",
                                             Len(w3.entities), e.team, id, 0))
                             EXCEPT !.entities[id].build_target = None,
                                    !.build_timers = Put(@, id, 0)]
                 ELSE [w2 EXCEPT !.build_timers = Put(@, id, timer)]

RECURSIVE BuildingFrom(_, _, _)
BuildingFrom(w, id, last) ==
    IF id > last THEN w
    ELSE LET e == w.entities[id]
         IN  BuildingFrom(IF e.kind # "Worker" \/ ~e.alive THEN w
                          ELSE place_building(w, id),
                          id + 1, last)

\* BuildingPlacementSystem.update
BuildingUpdate(w) ==
    BuildingFrom([w EXCEPT !.mineral_warning_cooldown = tick_cooldowns(@)],
                 1, Len(w.entities))


(***************************************************************************)
(* AISystem (team 2)                                                       *)
(***************************************************************************)

AI_TEAM == 2

\* AISystem.__init__
NewAI ==
    [state |-> "opening", state_timer |-> 0, last_action_time |-> 0,
     scouting_waypoints |-> <<>>, player_base_found |-> FALSE,
     player_base_pos |-> None, reinforcement_target |-> None,
     spotted_enemies |-> {}]

\* self.action_cooldown, self.min_workers, self.target_workers,
\* self.scout_army_size
ACTION_COOLDOWN == 2
MIN_WORKERS == 4
TARGET_WORKERS == 12
SCOUT_ARMY_SIZE == 3

\* AISystem._log
Log(w, decision_type) ==
    Publish(w, [type |-> "AIDecisionEvent", id |-> 0, team |-> AI_TEAM,
                a |-> 0, b |-> 0, what |-> decision_type])

RECURSIVE SortedSeq(_)
SortedSeq(S) ==
    IF S = {} THEN <<>>
    ELSE LET m == CHOOSE x \in S : \A y \in S : x <= y
         IN  <<m>> \o SortedSeq(S \ {m})

\* the live entities of a kind the AI owns, in id order
OwnLive(ents, kind) ==
    SortedSeq({i \in 1..Len(ents) :
        ents[i].kind = kind /\ ents[i].team = AI_TEAM /\ ents[i].alive})

\* AISystem._can_take_action
\* (an AI that never waits)
can_take_action_always(w) == TRUE

can_take_action(w) ==
    w.ai.state_timer - w.ai.last_action_time >= ACTION_COOLDOWN

\* AISystem._mark_action_taken
mark_action_taken(w) == [w EXCEPT !.ai.last_action_time = w.ai.state_timer]

\* AISystem._check_soldier_vision, the loop over the enemies one soldier sees
RECURSIVE spot_enemies(_, _, _)
spot_enemies(w, soldier, enemies) ==
    IF enemies = <<>> THEN w
    ELSE LET enemy == Head(enemies)
             en == w.entities[enemy]
             w1 == Log([w EXCEPT !.ai.spotted_enemies = @ \cup {enemy}],
                       "enemy_spotted")
         IN  IF enemy \in w.ai.spotted_enemies
             THEN spot_enemies(w, soldier, Tail(enemies))
             ELSE IF en.kind = "Base"
             THEN spot_enemies(
                      Log([w1 EXCEPT !.ai.player_base_found = TRUE,
                                     !.ai.player_base_pos = <<en.x, en.y>>,
                                     !.ai.state = IF @ = "scouting" THEN "raid"
                                                  ELSE @],
                          "base_spotted"),
                      soldier, Tail(enemies))
             ELSE IF w.entities[soldier].target = 0
             THEN spot_enemies(
                      Log([w1 EXCEPT !.entities[soldier].target = enemy,
                                     !.entities[soldier].destination =
                                         <<en.x, en.y>>,
                                     !.ai.reinforcement_target = <<en.x, en.y>>],
                          "engage"),
                      soldier, Tail(enemies))
             ELSE spot_enemies(w1, soldier, Tail(enemies))

\* AISystem._check_soldier_vision
RECURSIVE check_soldier_vision(_, _)
check_soldier_vision(w, soldiers) ==
    IF soldiers = <<>> THEN w
    ELSE LET s == Head(soldiers)
             enemies == SortedSeq(get_enemies_in_range(w.entities, s,
                            w.entities[s].vision * w.entities[s].vision))
         IN  check_soldier_vision(spot_enemies(w, s, enemies), Tail(soldiers))

\* the production the AI orders when it may act: base.start_production(),
\* _mark_action_taken(), _log
ai_queue(w, building, decision_type) ==
    Log(mark_action_taken(
            [w EXCEPT !.entities[building] = start_production(@)]),
        decision_type)

\* AISystem._do_opening
do_opening(w, base, workers) ==
    IF Len(workers) >= MIN_WORKERS
    THEN [Log(w, "state_change") EXCEPT !.ai.state = "economy"]
    ELSE IF /\ w.entities[base].production_queue = <<>>
            /\ w.team_minerals[AI_TEAM] >= WorkerCost
            /\ can_take_action(w)
    THEN ai_queue(w, base, "build_worker")
    ELSE w

\* AISystem._do_economy
do_economy(w, base, workers) ==
    LET w1 == IF /\ Len(workers) < TARGET_WORKERS
                 /\ w.entities[base].production_queue = <<>>
                 /\ w.team_minerals[AI_TEAM] >= WorkerCost
                 /\ can_take_action(w)
              THEN ai_queue(w, base, "build_worker")
              ELSE w
    IN  IF Len(workers) >= TARGET_WORKERS /\ w1.team_minerals[AI_TEAM] >= BarracksCost
        THEN [Log(w1, "state_change") EXCEPT !.ai.state = "military"]
        ELSE w1

\* _do_military_prep: the tiles a try can hit, int(base + uniform(-6, 6))
SiteCandidates(ents, base) ==
    ((ents[base].x - 6)..(ents[base].x + 6)) \X
        ((ents[base].y - 6)..(ents[base].y + 6))

\* _do_military_prep: a try succeeds on a buildable tile with no live entity
\* less than two tiles away
SiteValid(ents, c) ==
    /\ is_buildable(c[1], c[2])
    /\ ~\E o \in 1..Len(ents) :
           ents[o].alive /\ Dist2(ents[o].x, ents[o].y, c[1], c[2]) < 4

\* what the up to 20 tries can end with: a valid tile, or None when every
\* try hit an invalid one
SiteChoices(ents, base) ==
    LET cand == SiteCandidates(ents, base)
        valid == {c \in cand : SiteValid(ents, c)}
    IN  valid \cup (IF valid = cand THEN {} ELSE {None})

\* AISystem._do_military_prep; build_pos is the outcome of the random tries
do_military_prep(w, workers, barracks_list, build_pos) ==
    IF barracks_list # <<>>
    THEN [Log(w, "state_change") EXCEPT !.ai.state = "army"]
    ELSE IF \E i \in 1..Len(workers) : w.entities[workers[i]].build_target # None
    THEN w
    ELSE IF ~can_take_action(w) THEN w
    ELSE IF w.team_minerals[AI_TEAM] < BarracksCost THEN w
    ELSE IF workers = <<>> THEN Log(w, "no_worker")
    ELSE IF get_base(w.entities, AI_TEAM) = 0 THEN w
    ELSE IF build_pos = None THEN Log(w, "no_build_spot")
    ELSE LET candidate == Head(workers)
         IN  Log(mark_action_taken(
                     [w EXCEPT !.entities[candidate].gather_target = 0,
                               !.entities[candidate].state = "idle",
                               !.entities[candidate].destination = None,
                               !.entities[candidate].build_target =
                                   <<"Barracks", build_pos[1], build_pos[2]>>]),
                 "build_barracks")


\* _do_army_build and _do_scouting: the first barracks whose queue is
\* shorter than the limit gets a soldier, if the AI may act and can pay
ai_queue_soldier(w, barracks_list, limit, decision_type) ==
    LET open == {i \in 1..Len(barracks_list) :
                    Len(w.entities[barracks_list[i]].production_queue) < limit}
    IN  IF /\ open # {}
           /\ w.team_minerals[AI_TEAM] >= SoldierCost
           /\ can_take_action(w)
        THEN ai_queue(w, barracks_list[CHOOSE i \in open : \A j \in open : i <= j],
                      decision_type)
        ELSE w

\* AISystem._do_army_build
\* (an army that raids as soon as it is ready)
do_army_build_eager(w, barracks_list, soldiers) ==
    IF Len(soldiers) >= SCOUT_ARMY_SIZE
    THEN [Log(w, "state_change") EXCEPT !.ai.state = "raid"]
    ELSE ai_queue_soldier(w, barracks_list, 3, "build_soldier")

do_army_build(w, barracks_list, soldiers) ==
    IF Len(soldiers) >= SCOUT_ARMY_SIZE
    THEN [Log(w, "state_change") EXCEPT !.ai.state = "scouting"]
    ELSE ai_queue_soldier(w, barracks_list, 3, "build_soldier")

\* _do_scouting: random.randint(5, width - 5), random.randint(5, height - 5)
ScoutRange == (5..(game_map.width - 5)) \X (5..(game_map.height - 5))

\* _do_scouting: the soldiers with neither target nor destination
IsIdleSoldier(e) == e.target = 0 /\ e.destination = None

\* _do_scouting, "for soldier in idle_soldiers[:2]"
RECURSIVE reinforce(_, _, _)
reinforce(w, soldiers, left) ==
    IF soldiers = <<>> \/ left = 0 THEN w
    ELSE reinforce(
             Log([w EXCEPT !.entities[Head(soldiers)].destination =
                               w.ai.reinforcement_target],
                 "reinforce"),
             Tail(soldiers), left - 1)

\* _do_scouting, "Send idle soldiers to scout": the waypoints cycle
RECURSIVE send_scouts(_, _)
send_scouts(w, soldiers) ==
    IF soldiers = <<>> THEN w
    ELSE LET s == Head(soldiers)
             wps == w.ai.scouting_waypoints
         IN  send_scouts(
                 IF IsIdleSoldier(w.entities[s]) /\ wps # <<>>
                 THEN [w EXCEPT !.entities[s].destination = Head(wps),
                                !.ai.scouting_waypoints = Append(Tail(wps), Head(wps))]
                 ELSE w,
                 Tail(soldiers))

\* AISystem._do_scouting; waypoints are the points the random draws give
do_scouting(w, soldiers, barracks_list, waypoints) ==
    LET w1 == ai_queue_soldier(w, barracks_list, 2, "build_soldier")
        w2 == IF w1.ai.scouting_waypoints = <<>>
              THEN Log([w1 EXCEPT !.ai.scouting_waypoints = waypoints], "scouting")
              ELSE w1
        idle_soldiers ==
            SelectSeq(soldiers, LAMBDA s : IsIdleSoldier(w2.entities[s]))
        w3 == IF w2.ai.reinforcement_target # None
              THEN [reinforce(w2, idle_soldiers, 2)
                       EXCEPT !.ai.reinforcement_target = None]
              ELSE w2
        w4 == send_scouts(w3, soldiers)
    IN  IF w4.ai.player_base_found
        THEN [Log(w4, "state_change") EXCEPT !.ai.state = "raid"]
        ELSE w4

\* _do_raid, "Send ALL soldiers to player base"
RECURSIVE send_raid(_, _)
send_raid(w, soldiers) ==
    IF soldiers = <<>> THEN w
    ELSE LET s == Head(soldiers)
             e == w.entities[s]
             enemy_base == get_base(w.entities, 1)
         IN  send_raid(
                 IF /\ e.target = 0 \/ e.destination # w.ai.player_base_pos
                    /\ enemy_base # 0
                 THEN LET w1 == [w EXCEPT !.entities[s].target = enemy_base,
                                          !.entities[s].destination =
                                              w.ai.player_base_pos]
                      IN  IF e.target = 0 THEN Log(w1, "attack") ELSE w1
                 ELSE w,
                 Tail(soldiers))

\* AISystem._do_raid
do_raid(w, soldiers) ==
    LET enemy_base == get_base(w.entities, 1)
    IN  IF w.ai.player_base_pos # None THEN send_raid(w, soldiers)
        ELSE IF enemy_base = 0 THEN Log(w, "raid")
        ELSE send_raid(
                 Log([w EXCEPT !.ai.player_base_pos =
                          <<w.entities[enemy_base].x, w.entities[enemy_base].y>>],
                     "raid"),
                 soldiers)

\* AISystem._assign_workers_to_gather
RECURSIVE assign_workers_to_gather(_, _)
assign_workers_to_gather(w, workers) ==
    IF workers = <<>> THEN w
    ELSE LET id == Head(workers)
             e == w.entities[id]
             mineral == get_nearest_mineral(w.minerals, e.x, e.y)
         IN  assign_workers_to_gather(
                 IF e.state = "idle" /\ e.gather_target = 0 /\ mineral # 0
                 THEN [w EXCEPT !.entities[id].gather_target = mineral,
                                !.entities[id].state = "moving_to_mineral",
                                !.entities[id].destination = PatchXY(w, mineral)]
                 ELSE w,
                 Tail(workers))

\* AISystem._reassign_idle_soldiers, the body of the loop for one soldier
reassign_soldier(w, s) ==
    LET e0 == w.entities[s]
        w1 == IF e0.target # 0 /\ ~w.entities[e0.target].alive
              THEN [w EXCEPT !.entities[s].target = 0,
                             !.entities[s].destination = None]
              ELSE w
        enemy_base == get_base(w.entities, 1)
        wps == w.ai.scouting_waypoints
        enemies == get_enemies_in_range(w.entities, s,
                       (e0.vision * 3) * (e0.vision * 3))
    IN  IF ~IsIdleSoldier(w1.entities[s]) THEN w1
        ELSE LET w2 == Log(w1, "idle_soldier")
             IN  IF w.ai.state = "raid" /\ w.ai.player_base_pos # None
                 THEN [w2 EXCEPT !.entities[s].destination = w.ai.player_base_pos,
                                 !.entities[s].target =
                                     IF enemy_base # 0 THEN enemy_base ELSE @]
                 ELSE IF w.ai.state = "scouting" /\ wps # <<>>
                 THEN [w2 EXCEPT !.entities[s].destination = Head(wps),
                                 !.ai.scouting_waypoints =
                                     Append(Tail(wps), Head(wps))]
                 ELSE IF enemies # {}
                 THEN LET nearest == nearest_of(w.entities, s, enemies)
                      IN  [w2 EXCEPT !.entities[s].target = nearest,
                                     !.entities[s].destination =
                                         <<w.entities[nearest].x,
                                           w.entities[nearest].y>>]
                 ELSE w2

\* AISystem._reassign_idle_soldiers
RECURSIVE reassign_idle_soldiers(_, _)
reassign_idle_soldiers(w, soldiers) ==
    IF soldiers = <<>> THEN w
    ELSE reassign_idle_soldiers(reassign_soldier(w, Head(soldiers)),
                                Tail(soldiers))

\* whether the update draws scouting waypoints from an empty range:
\* random.randint then raises ValueError and the update does not return
ScoutingRaises(w) ==
    LET seen == check_soldier_vision(w, OwnLive(w.entities, "Soldier"))
    IN  /\ get_base(w.entities, AI_TEAM) # 0
        /\ seen.ai.state = "scouting"
        /\ seen.ai.scouting_waypoints = <<>>
        /\ ScoutRange = {}

\* AISystem.update; build_pos and waypoints are the outcomes of the random
\* draws of _do_military_prep and _do_scouting
ai_update(w, dt, build_pos, waypoints) ==
    LET w0 == [w EXCEPT !.ai.state_timer = @ + dt]
        workers == OwnLive(w.entities, "Worker")
        soldiers == OwnLive(w.entities, "Soldier")
        base == get_base(w.entities, AI_TEAM)
        barracks_list == OwnLive(w.entities, "Barracks")
        \* int(t) % n == 0 and int(t) != int(t - dt)
        every(n) == w0.ai.state_timer % n = 0
        w1 == IF every(10) THEN Log(w0, "status") ELSE w0
        w2 == check_soldier_vision(w1, soldiers)
        w3 == IF w2.ai.state = "opening" THEN do_opening(w2, base, workers)
              ELSE IF w2.ai.state = "economy" THEN do_economy(w2, base, workers)
              ELSE IF w2.ai.state = "military"
              THEN do_military_prep(w2, workers, barracks_list, build_pos)
              ELSE IF w2.ai.state = "army"
              THEN do_army_build(w2, barracks_list, soldiers)
              ELSE IF w2.ai.state = "scouting"
              THEN do_scouting(w2, soldiers, barracks_list, waypoints)
              ELSE do_raid(w2, soldiers)
        w4 == assign_workers_to_gather(w3, workers)
    IN  IF base = 0 THEN Log(w0, "game_over")
        ELSE IF every(16) THEN reassign_idle_soldiers(w4, soldiers)
        ELSE w4

\* the update of a tick of the game
AIUpdate(w, build_pos, waypoints) == ai_update(w, SIM_DT, build_pos, waypoints)


(***************************************************************************)
(* World.check_victory                                                     *)
(***************************************************************************)

\* (a check_victory that forgets the timestamp)
check_victory_untimed(ents, c) ==
    LET lost(team) == get_base(ents, team) = 0
        over(w) == [c EXCEPT !.game_over = TRUE, !.winner = w]
    IN  IF lost(1) THEN over(2)
        ELSE IF lost(2) THEN over(1)
        ELSE c

\* World.check_victory, on the record of the four fields it writes
check_victory(ents, c) ==
    LET lost(team) == get_base(ents, team) = 0
        over(w) == [game_over |-> TRUE, winner |-> w,
                    game_over_time |-> IF c.game_over THEN c.game_over_time
                                       ELSE c.game_time,
                    game_time |-> c.game_time]
    IN  IF lost(1) THEN over(2)
        ELSE IF lost(2) THEN over(1)
        ELSE c

(***************************************************************************)
(* The player's commands (Game.handle_click, Game.start_build_mode,        *)
(* Game.request_production, and the drag selection of the main loop).      *)
(* A command works on the record g of World.entities, World.minerals,      *)
(* World.team_minerals, the selection, the build mode and the event log.   *)
(***************************************************************************)

PLAYER == 1

\* World.get_entity_at with the default radius 0.5: the first live entity on
\* the tile, 0 for None
get_entity_at(ents, x, y) ==
    LET at == {i \in 1..Len(ents) :
                  ents[i].alive /\ Dist2(ents[i].x, ents[i].y, x, y) = 0}
    IN  IF at = {} THEN 0 ELSE CHOOSE i \in at : \A j \in at : i <= j

\* next(iter(self.selection.selected_ids)), 0 when nothing is selected
first_selected(selected) ==
    IF selected = {} THEN 0
    ELSE CHOOSE i \in selected : \A j \in selected : i <= j

\* handle_click: the nearest non-depleted mineral less than 1.5 tiles from
\* the click, 0 for None
mineral_clicked(patches, wx, wy) ==
    LET d(i) == Dist2(patches[i].x, patches[i].y, wx, wy)
        \* dist_sq < 2.25
        near == {i \in 1..Len(patches) : ~depleted(patches[i]) /\ 4 * d(i) < 9}
    IN  IF near = {} THEN 0
        ELSE CHOOSE i \in near :
                 \A j \in near : d(i) < d(j) \/ (d(i) = d(j) /\ i <= j)

\* _generate_spiral_offsets, one ring: top edge, right edge, bottom edge,
\* left edge
SpiralRing(r) ==
    [i \in 1..(2 * r + 1) |-> <<i - 1 - r, 0 - r>>] \o
    [i \in 1..(2 * r) |-> <<r, i - r>>] \o
    [i \in 1..(2 * r) |-> <<r - i, r>>] \o
    [i \in 1..(2 * r - 1) |-> <<0 - r, r - i>>]

RECURSIVE SpiralRings(_, _)
SpiralRings(r, last) ==
    IF r > last THEN <<>> ELSE SpiralRing(r) \o SpiralRings(r + 1, last)

\* int(math.sqrt(count))
ISqrt(n) == CHOOSE k \in 0..n : k * k <= n /\ (k + 1) * (k + 1) > n

\* (the spiral not cut to count)
generate_spiral_offsets_whole(count) ==
    << <<0, 0>> >> \o SpiralRings(1, ISqrt(count) + 2)

\* selection._generate_spiral_offsets
generate_spiral_offsets(count) ==
    SubSeq(<< <<0, 0>> >> \o SpiralRings(1, ISqrt(count) + 2), 1, count)

\* calculate_group_destinations, the loop over the units: every unit gets
\* the first tile of the spiral that is walkable and not yet assigned, or
\* the target itself when there is none
RECURSIVE assign_tiles(_, _, _, _, _)
assign_tiles(ents, units, target, spiral_offsets, occupied_tiles) ==
    IF units = <<>> THEN ents
    ELSE LET free == {k \in 1..Len(spiral_offsets) :
                 LET t == <<target[1] + spiral_offsets[k][1],
                            target[2] + spiral_offsets[k][2]>>
                 IN  t \notin occupied_tiles /\ is_walkable(t[1], t[2])}
             k == CHOOSE k \in free : \A j \in free : k <= j
             tile == IF free = {} THEN target
                     ELSE <<target[1] + spiral_offsets[k][1],
                            target[2] + spiral_offsets[k][2]>>
             e == ents[Head(units)]
             moved == [e EXCEPT !.destination = tile, !.path = <<>>,
                                !.target = 0,
                                !.gather_target =
                                    IF e.kind = "Worker" THEN 0 ELSE @,
                                !.state = IF e.kind = "Worker" THEN "idle" ELSE @]
         IN  assign_tiles([ents EXCEPT ![Head(units)] = moved], Tail(units),
                          target, spiral_offsets,
                          IF free = {} THEN occupied_tiles
                          ELSE occupied_tiles \cup {tile})

\* selection.calculate_group_destinations applied by handle_click
group_move(ents, units, target) ==
    assign_tiles(ents, units, target,
                 generate_spiral_offsets(Len(units) + 10), {})

\* (an order that is not announced)
CommandUnheard(g, id) == g

\* event_bus.publish(CommandEvent(entity_id=..., team=1))
Command(g, id) ==
    [g EXCEPT !.events = Append(@, Event("CommandEvent", id, PLAYER, 0, 0))]

\* Game.handle_click, the attack order: every selected unit walks to the
\* enemy, the soldiers target it
RECURSIVE attack_order(_, _, _)
attack_order(ents, units, enemy) ==
    IF units = <<>> THEN ents
    ELSE attack_order(
             [ents EXCEPT ![Head(units)].target =
                              IF ents[Head(units)].kind = "Soldier" THEN enemy
                              ELSE @,
                          ![Head(units)].destination =
                              <<ents[enemy].x, ents[enemy].y>>],
             Tail(units), enemy)

\* Game.handle_click
handle_click(g, wx, wy) ==
    LET ents == g.entities
        clicked_entity == get_entity_at(ents, wx, wy)
        first == first_selected(g.selected_ids)
        selected_units ==
            SortedSeq({i \in g.selected_ids : ents[i].alive /\ IsUnit(ents[i])})
        unit == Head(selected_units)
        best_mineral ==
            IF Len(selected_units) = 1 /\ ents[unit].kind = "Worker"
            THEN mineral_clicked(g.minerals, wx, wy) ELSE 0
    IN  IF g.build_mode /\ g.build_type # "none" /\ first # 0 THEN
            IF ents[first].kind = "Worker"
            THEN Command([g EXCEPT !.entities[first].build_target =
                                       <<g.build_type, wx, wy>>,
                                   !.build_mode = FALSE,
                                   !.build_type = "none"], first)
            ELSE g
        ELSE IF clicked_entity # 0 /\ ents[clicked_entity].team = PLAYER
        THEN [g EXCEPT !.selected_ids = {clicked_entity}]
        ELSE IF g.selected_ids = {} THEN g
        ELSE IF selected_units = <<>> THEN g
        ELSE IF best_mineral # 0
        THEN Command([g EXCEPT !.entities[unit].gather_target = best_mineral,
                               !.entities[unit].state = "moving_to_mineral",
                               !.entities[unit].destination =
                                   <<g.minerals[best_mineral].x,
                                     g.minerals[best_mineral].y>>,
                               !.entities[unit].target = 0], unit)
        ELSE IF clicked_entity # 0
        THEN Command([g EXCEPT !.entities =
                          attack_order(ents, selected_units, clicked_entity)],
                     unit)
        ELSE IF Len(selected_units) = 1
        THEN Command([g EXCEPT !.entities[unit] =
                          [ents[unit] EXCEPT
                              !.destination = <<wx, wy>>, !.path = <<>>,
                              !.target = 0,
                              !.gather_target =
                                  IF ents[unit].kind = "Worker" THEN 0 ELSE @,
                              !.state =
                                  IF ents[unit].kind = "Worker" THEN "idle" ELSE @]],
                     unit)
        ELSE Command([g EXCEPT !.entities =
                          group_move(ents, selected_units, <<wx, wy>>)], unit)

\* Game.start_build_mode
start_build_mode(g, building_type) ==
    LET first == first_selected(g.selected_ids)
    IN  IF first # 0 /\ g.entities[first].kind = "Worker"
        THEN [g EXCEPT !.build_mode = TRUE, !.build_type = building_type]
        ELSE g

\* Game.request_production; every building is a Base or a Barracks
request_production(g) ==
    LET first == first_selected(g.selected_ids)
        b == g.entities[first]
        unit_type == ProducedBy(b.kind)
        cost == CostOf(unit_type)
        available == g.team_minerals[b.team]
        g1 == IF available < cost
              THEN [g EXCEPT !.events =
                       Append(@, Event("InsufficientMineralsEvent", first,
                                       b.team, cost, available))]
              ELSE g
    IN  IF first = 0 \/ ~IsBuilding(b) THEN g
        ELSE [g1 EXCEPT !.entities[first] = start_production(b)]

\* SelectionManager.end_drag over a rectangle of tiles: the live units of
\* the team inside it
end_drag(ents, team, min_x, min_y, max_x, max_y) ==
    {i \in 1..Len(ents) :
        /\ ents[i].alive /\ ents[i].team = team /\ IsUnit(ents[i])
        /\ min_x <= ents[i].x /\ ents[i].x <= max_x
        /\ min_y <= ents[i].y /\ ents[i].y <= max_y}


-----------------------------------------------------------------------------
(***************************************************************************)
(* Initial state: Game.__init__ and Game.setup                             *)
(***************************************************************************)

InitMap == game_map = ScenarioMap

InitGameVars ==
    /\ pc = "idle"
    /\ ran = <<>>
    /\ game_time = 0
    /\ game_over = FALSE
    /\ winner = 0
    /\ game_over_time = -1
    /\ horizon = MaxTicks * SIM_DT
    /\ team_minerals = [t \in Teams |-> StartingMinerals]
    /\ minerals = ScenarioMinerals
    /\ events = <<>>
    /\ selected_ids = {}
    /\ build_mode = FALSE
    /\ build_type = "none"
    /\ commands = 0
    /\ result = "none"
    /\ stuck_timers = EmptyDict
    /\ base_attack_cooldown = EmptyDict
    /\ gather_timers = EmptyDict
    /\ build_timers = EmptyDict
    /\ mineral_warning_cooldown = EmptyDict
    /\ ai = NewAI
    /\ began = [entities |-> entities, team_minerals |-> team_minerals]
    /\ log = <<>>


InitWorld ==
    /\ entities = setup(ScenarioEntities, ScenarioMinerals)
    /\ fog = [t \in Teams |-> NewFog]

InitFogVars ==
    /\ fog_fresh = FALSE
    /\ fog_changes = 0

InitFog == InitMap /\ InitBus /\ InitWorld /\ InitFogVars /\ InitGameVars

\* FogOfWarSystem.update
FogUpdate ==
    /\ fog' = update_fog_of_war(fog, entities)
    /\ fog_fresh' = TRUE
    /\ UNCHANGED <<entities, fog_changes, busVars, gameVars>>

\* Between two fog updates the other systems change the entities.
\* MovementSystem steps a unit to a neighbouring tile.
FogUnitMoves(id, dx, dy) ==
    /\ fog_changes < MaxFogChanges
    /\ IsUnit(entities[id]) /\ entities[id].alive
    /\ is_walkable(entities[id].x + dx, entities[id].y + dy)
    /\ entities' = [entities EXCEPT ![id].x = @ + dx, ![id].y = @ + dy]
    /\ fog_changes' = fog_changes + 1
    /\ fog_fresh' = FALSE
    /\ UNCHANGED <<fog, busVars, gameVars>>

\* CombatSystem kills an entity (Entity.take_damage).
FogEntityDies(id) ==
    /\ fog_changes < MaxFogChanges
    /\ entities[id].alive
    /\ entities' = [entities EXCEPT ![id].alive = FALSE]
    /\ fog_changes' = fog_changes + 1
    /\ fog_fresh' = FALSE
    /\ UNCHANGED <<fog, busVars, gameVars>>

\* ProductionSystem spawns a unit at (building.x + jitter, building.y + 2),
\* wherever that is.
FogUnitSpawns(b, jitter) ==
    /\ fog_changes < MaxFogChanges
    /\ Len(entities) < MaxEntities
    /\ IsBuilding(entities[b]) /\ entities[b].alive
    /\ entities' = Append(entities,
           NewEntity(IF entities[b].kind = "Base" THEN "Worker" ELSE "Soldier",
                     entities[b].team, entities[b].x + jitter, entities[b].y + 2))
    /\ fog_changes' = fog_changes + 1
    /\ fog_fresh' = FALSE
    /\ UNCHANGED <<fog, busVars, gameVars>>

\* BuildingPlacementSystem spawns a Barracks on a buildable tile within two
\* tiles of its worker.
FogBuildingSpawns(w, x, y) ==
    /\ fog_changes < MaxFogChanges
    /\ Len(entities) < MaxEntities
    /\ entities[w].kind = "Worker" /\ entities[w].alive
    /\ is_buildable(x, y)
    /\ (x - entities[w].x) * (x - entities[w].x)
         + (y - entities[w].y) * (y - entities[w].y) <= 4
    /\ entities' = Append(entities, NewEntity("Barracks", entities[w].team, x, y))
    /\ fog_changes' = fog_changes + 1
    /\ fog_fresh' = FALSE
    /\ UNCHANGED <<fog, busVars, gameVars>>

NextFog ==
    \/ FogUpdate
    \/ \E id \in EntityIds, dx \in {-1, 0, 1}, dy \in {-1, 0, 1} :
           FogUnitMoves(id, dx, dy)
    \/ \E id \in EntityIds : FogEntityDies(id)
    \/ \E b \in EntityIds, jitter \in {-1, 0, 1} : FogUnitSpawns(b, jitter)
    \/ \E w \in EntityIds, c \in Tiles : FogBuildingSpawns(w, c[1], c[2])

SpecFog == InitFog /\ [][NextFog]_vars

InitBusSpec == InitMap /\ InitBus /\ InitWorld /\ InitFogVars /\ InitGameVars

SpecBus == InitBusSpec /\ [][NextBus]_vars

-----------------------------------------------------------------------------
(***************************************************************************)
(* The game: Game._tick step by step, and the player between the ticks     *)
(***************************************************************************)

\* (a tick that runs production before the workers deliver)
TICK_ORDER_SWAPPED ==
    <<"Movement", "Combat", "Production", "Resources", "BuildingPlacement",
      "FogOfWar", "AI", "check_victory">>

\* Game._tick: the calls it makes, in order
TICK_ORDER ==
    <<"Movement", "Combat", "Resources", "Production", "BuildingPlacement",
      "FogOfWar", "AI", "check_victory">>

\* the events the record keeps: those of combat and of production
Recorded ==
    {"AttackEvent", "DeathEvent", "BaseUnderAttackEvent",
     "ProductionStartedEvent", "ProductionCompletedEvent"}

\* the events of a tick as the record keeps them: with the game time of
\* the tick; of a production event it keeps the building and the team only
Stamped(evs, now) ==
    LET kept == SelectSeq(evs, LAMBDA e : e.type \in Recorded)
        combat(e) == e.type \in {"AttackEvent", "DeathEvent", "BaseUnderAttackEvent"}
    IN  [i \in 1..Len(kept) |->
            [type |-> kept[i].type, id |-> kept[i].id, team |-> kept[i].team,
             a |-> IF combat(kept[i]) THEN kept[i].a ELSE 0,
             b |-> IF combat(kept[i]) THEN kept[i].b ELSE 0,
             what |-> kept[i].what, time |-> now]]

\* the call that follows the k-th of a tick, "idle" after the last
StepAfter(k) == IF k < Len(TICK_ORDER) THEN TICK_ORDER[k + 1] ELSE "idle"

Cur ==
    [entities |-> entities, minerals |-> minerals,
     team_minerals |-> team_minerals, events |-> events,
     stuck_timers |-> stuck_timers,
     base_attack_cooldown |-> base_attack_cooldown,
     gather_timers |-> gather_timers, build_timers |-> build_timers,
     mineral_warning_cooldown |-> mineral_warning_cooldown, ai |-> ai]

Install(w) ==
    /\ entities' = w.entities
    /\ minerals' = w.minerals
    /\ team_minerals' = w.team_minerals
    /\ events' = w.events
    /\ stuck_timers' = w.stuck_timers
    /\ base_attack_cooldown' = w.base_attack_cooldown
    /\ gather_timers' = w.gather_timers
    /\ build_timers' = w.build_timers
    /\ mineral_warning_cooldown' = w.mineral_warning_cooldown
    /\ ai' = w.ai

\* a step of the tick: the system's update runs and control moves on
Advance ==
    /\ pc' = StepAfter(Len(ran) + 1)
    /\ ran' = Append(ran, pc)

\* the entities a tick can add: one per producing building, one per builder
PendingSpawns ==
    Cardinality({i \in EntityIds :
        /\ entities[i].alive
        /\ \/ entities[i].production_queue # <<>>
           \/ entities[i].build_target # None})

\* (a tick that does not look at game_over)
TickBeginRunsOn ==
    /\ pc = "idle"
    /\ game_time < horizon
    /\ Len(entities) + PendingSpawns <= MaxEntities
    /\ game_time' = game_time + SIM_DT
    /\ ran' = <<>>
    /\ events' = <<>>
    /\ pc' = StepAfter(0)
    /\ UNCHANGED <<game_over, winner, game_over_time, runVars, log,
                   team_minerals, minerals, uiVars, sysVars, worldVars,
                   busVars, fogVars>>

\* Game._tick up to the first system: the clock advances; a tick of a game
\* that is over ends here
TickBegin ==
    /\ pc = "idle"
    /\ game_time < horizon
    /\ Len(entities) + PendingSpawns <= MaxEntities
    /\ game_time' = game_time + SIM_DT
    /\ ran' = <<>>
    /\ events' = <<>>
    /\ pc' = IF game_over THEN "idle" ELSE StepAfter(0)
    /\ UNCHANGED <<game_over, winner, game_over_time, runVars, log,
                   team_minerals, minerals, uiVars, sysVars, worldVars,
                   busVars, fogVars>>

MovementStep ==
    /\ pc = "Movement"
    /\ Install(MovementUpdate(Cur))
    /\ Advance
    /\ UNCHANGED <<fog, clockVars, uiVars, busVars, fogVars>>

CombatStep ==
    /\ pc = "Combat"
    /\ Install(CombatUpdate(Cur, game_time))
    /\ Advance
    /\ UNCHANGED <<fog, clockVars, uiVars, busVars, fogVars>>

ResourceStep ==
    /\ pc = "Resources"
    /\ Install(ResourceUpdate(Cur))
    /\ Advance
    /\ UNCHANGED <<fog, clockVars, uiVars, busVars, fogVars>>

ProductionStep ==
    /\ pc = "Production"
    /\ \E offsets \in [Completing(entities) -> SpawnJitter] :
           Install(ProductionUpdate(Cur, offsets))
    /\ Advance
    /\ UNCHANGED <<fog, clockVars, uiVars, busVars, fogVars>>

BuildingStep ==
    /\ pc = "BuildingPlacement"
    /\ Install(BuildingUpdate(Cur))
    /\ Advance
    /\ UNCHANGED <<fog, clockVars, uiVars, busVars, fogVars>>

FogStep ==
    /\ pc = "FogOfWar"
    /\ fog' = update_fog_of_war(fog, entities)
    /\ Advance
    /\ UNCHANGED <<entities, team_minerals, minerals, events, clockVars,
                   uiVars, sysVars, busVars, fogVars>>

AIStep ==
    /\ pc = "AI"
    /\ ~ScoutingRaises(Cur)
    /\ \E build_pos \in
              IF ai.state = "military" /\ get_base(entities, AI_TEAM) # 0
              THEN SiteChoices(entities, get_base(entities, AI_TEAM))
              ELSE {None} :
           \E waypoints \in
                  IF ScoutRange = {} THEN {<<>>}
                  ELSE [1..ScoutDraws -> ScoutRange] :
               Install(AIUpdate(Cur, build_pos, waypoints))
    /\ Advance
    /\ UNCHANGED <<fog, clockVars, uiVars, busVars, fogVars>>

VictoryStep ==
    /\ pc = "check_victory"
    /\ LET c == check_victory(entities,
                    [game_over |-> game_over, winner |-> winner,
                     game_over_time |-> game_over_time, game_time |-> game_time])
       IN  /\ game_over' = c.game_over
           /\ winner' = c.winner
           /\ game_over_time' = c.game_over_time
    /\ log' = log \o Stamped(events, game_time)
    /\ Advance
    /\ UNCHANGED <<game_time, runVars, team_minerals, minerals, events, uiVars,
                   sysVars, worldVars, busVars, fogVars>>

\* The main loop reads the input between two updates, and passes it to the
\* game only while the game is not over.
CanCommand ==
    /\ pc = "idle"
    /\ ~game_over

\* the game as a command finds it; the event log starts afresh
G ==
    [entities |-> entities, minerals |-> minerals,
     team_minerals |-> team_minerals, events |-> <<>>,
     selected_ids |-> selected_ids, build_mode |-> build_mode,
     build_type |-> build_type]

InstallG(g) ==
    /\ entities' = g.entities
    /\ events' = g.events
    /\ selected_ids' = g.selected_ids
    /\ build_mode' = g.build_mode
    /\ build_type' = g.build_type
    /\ UNCHANGED <<pc, ran, clockVars, team_minerals, minerals, sysVars, fog,
                   busVars, fogVars>>

Click(wx, wy) ==
    /\ CanCommand
    /\ commands < MaxCommands
    /\ commands' = commands + 1
    /\ InstallG(handle_click(G, wx, wy))
    /\ UNCHANGED result

StartBuildMode ==
    /\ CanCommand
    /\ commands < MaxCommands
    /\ commands' = commands + 1
    /\ InstallG(start_build_mode(G, "Barracks"))
    /\ UNCHANGED result

\* Game.request_production; result is what Building.queue_production
\* returned, if it was called
RequestProduction ==
    LET first == first_selected(selected_ids)
    IN  /\ CanCommand
        /\ InstallG(request_production(G))
        /\ UNCHANGED commands
        /\ result' = IF first = 0 \/ ~IsBuilding(entities[first]) THEN result
                     ELSE IF queue_production_result(entities[first])
                     THEN "True" ELSE "False"

\* the main loop at the end of a drag over the whole map: a non-empty
\* selection replaces the current one
DragSelect ==
    LET selected == end_drag(entities, PLAYER, 0, 0, MapWidth - 1, MapHeight - 1)
    IN  /\ CanCommand
        /\ commands < MaxCommands
        /\ commands' = commands + 1
        /\ InstallG([G EXCEPT !.selected_ids =
                         IF selected # {} THEN selected ELSE @])
        /\ UNCHANGED result

\* where the player clicks: on an entity, on a mineral patch, on open
\* ground, on a rock, on the map's edge row
ClickTargets ==
    {<<entities[i].x, entities[i].y>> : i \in {i \in EntityIds : entities[i].alive}}
        \cup {<<minerals[p].x, minerals[p].y>> : p \in 1..Len(minerals)}
        \cup {<<1, 2>>, <<4, 1>>, <<0, 2>>}

\* the game as Game.setup leaves it
NewGame ==
    [entities |-> setup(ScenarioEntities, ScenarioMinerals),
     minerals |-> ScenarioMinerals,
     team_minerals |-> [t \in Teams |-> StartingMinerals], events |-> <<>>,
     selected_ids |-> {}, build_mode |-> FALSE, build_type |-> "none"]

\* a sequence of player commands, each handled by the game's own handler
RECURSIVE Play(_, _)
Play(g, cmds) ==
    IF cmds = <<>> THEN g
    ELSE LET c == Head(cmds)
             after == IF c[1] = "click" THEN handle_click(g, c[2], c[3])
                      ELSE start_build_mode(g, c[2])
         IN  Play([after EXCEPT !.events = <<>>], Tail(cmds))

\* The player's orders before the first update: none, or each of the two
\* starting workers sent to build a Barracks next to it.
Openings ==
    {<<>>,
     << <<"click", 2, 1>>, <<"build", "Barracks">>, <<"click", 1, 2>>,
        <<"click", 3, 1>>, <<"build", "Barracks">>, <<"click", 4, 1>> >>}

Init ==
    /\ InitMap
    /\ InitBus
    /\ InitFogVars
    /\ fog = [t \in Teams |-> NewFog]
    /\ \E opening \in Openings :
           LET g == Play(NewGame, opening)
           IN  /\ entities = g.entities
               /\ selected_ids = g.selected_ids
               /\ build_mode = g.build_mode
               /\ build_type = g.build_type
    /\ pc = "idle"
    /\ ran = <<>>
    /\ game_time = 0
    /\ game_over = FALSE
    /\ winner = 0
    /\ game_over_time = -1
    /\ horizon = MaxTicks * SIM_DT
    /\ team_minerals = [t \in Teams |-> StartingMinerals]
    /\ minerals = ScenarioMinerals
    /\ events = <<>>
    /\ commands = 0
    /\ result = "none"
    /\ stuck_timers = EmptyDict
    /\ base_attack_cooldown = EmptyDict
    /\ gather_timers = EmptyDict
    /\ build_timers = EmptyDict
    /\ mineral_warning_cooldown = EmptyDict
    /\ ai = NewAI
    /\ began = [entities |-> entities, team_minerals |-> team_minerals]
    /\ log = <<>>

Next ==
    \/ TickBegin
    \/ MovementStep
    \/ CombatStep
    \/ ResourceStep
    \/ ProductionStep
    \/ BuildingStep
    \/ FogStep
    \/ AIStep
    \/ VictoryStep
    \/ \E c \in ClickTargets : Click(c[1], c[2])
    \/ StartBuildMode
    \/ RequestProduction
    \/ DragSelect

Spec == Init /\ [][Next]_vars

-----------------------------------------------------------------------------
(***************************************************************************)
(* Skirmishes: worlds built entity by entity with World.spawn_entity, with *)
(* World.team_minerals set and Building.queue_production called before the *)
(* first tick, as the tests of the systems build theirs; then the game     *)
(* ticks with no player at the controls.                                   *)
(***************************************************************************)

\* ticks in one skirmish
SkirmishTicks == 11

\* the entities of a list of <<kind, team, x, y>>, spawned in order
Spawned(list) ==
    [i \in 1..Len(list) |->
        NewEntity(list[i][1], list[i][2], list[i][3], list[i][4])]

\* Building.queue_production called once per id of the list, in order
RECURSIVE Queued(_, _)
Queued(ents, ids) ==
    IF ids = <<>> THEN ents
    ELSE Queued([ents EXCEPT ![Head(ids)] = start_production(@)], Tail(ids))

TwoBases ==
    << <<"Base", 1, BasePos(1)[1], BasePos(1)[2]>>,
       <<"Base", 2, BasePos(2)[1], BasePos(2)[2]>> >>

NoFunds == [t \in Teams |-> 0]

Skirmish(list, patches, funds, ids) ==
    [ents |-> TwoBases \o list, patches |-> patches, funds |-> funds,
     ids |-> ids]

\* a soldier beside an opposing worker
Duel ==
    Skirmish(<< <<"Soldier", 1, 5, 0>>, <<"Worker", 2, 5, 1>> >>,
             <<>>, NoFunds, <<>>)

\* three soldiers around an opposing worker
Gang ==
    Skirmish(<< <<"Soldier", 1, 5, 0>>, <<"Soldier", 1, 4, 1>>,
                <<"Soldier", 1, 5, 2>>, <<"Worker", 2, 5, 1>> >>,
             <<>>, NoFunds, <<>>)

\* one soldier, or two, beside the opposing base; a soldier of each team
\* beside the other's base
Sieges ==
    {Skirmish(<< <<"Soldier", 1, 3, 2>> >>, <<>>, NoFunds, <<>>),
     Skirmish(<< <<"Soldier", 1, 3, 2>>, <<"Soldier", 1, 2, 3>> >>,
              <<>>, NoFunds, <<>>),
     Skirmish(<< <<"Soldier", 1, 3, 2>>, <<"Soldier", 2, 1, 1>> >>,
              <<>>, NoFunds, <<>>)}

\* the player's base asked for k workers, with the minerals for all of them;
\* a barracks asked for two soldiers
Orders ==
    {Skirmish(<<>>, <<>>, [NoFunds EXCEPT ![1] = MAX_QUEUE_SIZE * WorkerCost],
              [i \in 1..k |-> 1]) : k \in 1..MAX_QUEUE_SIZE}
        \cup {Skirmish(<< <<"Barracks", 1, 4, 0>> >>, <<>>,
                       [NoFunds EXCEPT ![1] = 2 * SoldierCost], <<3, 3>>)}

\* the player's base asked for a worker it cannot pay yet, and a worker
\* between a mineral patch and the base
Shortage ==
    Skirmish(<< <<"Worker", 1, 0, 0>> >>,
             <<[x |-> 0, y |-> 1, minerals |-> PatchMinerals]>>,
             [NoFunds EXCEPT ![1] = WorkerCost - 2], <<1>>)

\* a worker beside a patch that holds a single mineral, with a second patch
\* further off
Dregs ==
    Skirmish(<< <<"Worker", 1, 0, 0>> >>,
             <<[x |-> 0, y |-> 1, minerals |-> 1],
               [x |-> 2, y |-> 1, minerals |-> PatchMinerals]>>,
             NoFunds, <<>>)

\* two workers beside a patch that holds one mineral more than a load
Rivals ==
    Skirmish(<< <<"Worker", 1, 0, 0>>, <<"Worker", 1, 1, 1>> >>,
             <<[x |-> 0, y |-> 1, minerals |-> GATHER_AMOUNT + 1]>>,
             NoFunds, <<>>)

\* a worker on its way to a patch that holds a single mineral, and a second
\* worker beside that patch
Race ==
    Skirmish(<< <<"Worker", 1, 3, 1>>, <<"Worker", 1, 0, 0>> >>,
             <<[x |-> 0, y |-> 1, minerals |-> 1]>>, NoFunds, <<>>)

\* a worker of the AI beside a patch that holds a single mineral, with a
\* second patch further off
Switch ==
    Skirmish(<< <<"Worker", 2, 4, 3>> >>,
             <<[x |-> 5, y |-> 3, minerals |-> 1],
               [x |-> 5, y |-> 1, minerals |-> PatchMinerals]>>,
             NoFunds, <<>>)

Gatherings == {Shortage, Dregs, Rivals, Race, Switch}

Skirmishes == {Duel, Gang, Shortage} \cup Sieges \cup Orders

\* a game on the map given that starts from one of the worlds given and runs
\* for the ticks given
InitGame(map, starts, ticks) ==
    /\ game_map = map
    /\ InitBus
    /\ InitFogVars
    /\ fog = [t \in Teams |-> NewFog]
    /\ \E s \in starts :
           /\ entities = s.entities
           /\ minerals = s.minerals
           /\ team_minerals = s.team_minerals
           /\ selected_ids = s.selected_ids
    /\ pc = "idle"
    /\ ran = <<>>
    /\ game_time = 0
    /\ game_over = FALSE
    /\ winner = 0
    /\ game_over_time = -1
    /\ horizon = ticks * SIM_DT
    /\ events = <<>>
    /\ build_mode = FALSE
    /\ build_type = "none"
    /\ commands = 0
    /\ result = "none"
    /\ stuck_timers = EmptyDict
    /\ base_attack_cooldown = EmptyDict
    /\ gather_timers = EmptyDict
    /\ build_timers = EmptyDict
    /\ mineral_warning_cooldown = EmptyDict
    /\ ai = NewAI
    /\ began = [entities |-> entities, team_minerals |-> team_minerals]
    /\ log = <<>>

\* a world as its spawn_entity and queue_production calls and Game.setup
\* leave it
Prepared(s) ==
    [entities |-> Queued(setup(Spawned(s.ents), s.patches), s.ids),
     minerals |-> s.patches, team_minerals |-> s.funds, selected_ids |-> {}]

InitOn(map, worlds, ticks) == InitGame(map, {Prepared(s) : s \in worlds}, ticks)

\* the same on the map of the scenario
InitFrom(worlds, ticks) == InitOn(ScenarioMap, worlds, ticks)

InitSkirmish == InitFrom(Skirmishes, SkirmishTicks)

\* Game._tick, again and again
NextTicks ==
    \/ TickBegin
    \/ MovementStep
    \/ CombatStep
    \/ ResourceStep
    \/ ProductionStep
    \/ BuildingStep
    \/ FogStep
    \/ AIStep
    \/ VictoryStep

SpecSkirmish == InitSkirmish /\ [][NextTicks]_vars

\* The game of Shortage with the player at the controls.
InitHarvest == InitFrom({Shortage, Dregs}, MaxTicks)

SpecHarvest == InitHarvest /\ [][Next]_vars

\* the worlds with workers at their patches, played for the length of a
\* skirmish with the player at the controls
InitGather == InitFrom(Gatherings, SkirmishTicks)

SpecGather == InitGather /\ [][Next]_vars

-----------------------------------------------------------------------------
(***************************************************************************)
(* Event bus: properties                                                   *)
(***************************************************************************)

\* The handlers registered for event_type after the calls of hist, in the
\* order of their subscribe calls.
RECURSIVE RegisteredAfter(_, _)
RegisteredAfter(hist, event_type) ==
    IF hist = <<>> THEN <<>>
    ELSE LET n == Len(hist)
             before == RegisteredAfter(SubSeq(hist, 1, n - 1), event_type)
             c == hist[n]
         IN  IF c[1] = "clear" THEN <<>>
             ELSE IF c[2] # event_type THEN before
             ELSE IF c[1] = "subscribe" THEN Append(before, c[3])
             ELSE RemoveFirst(before, c[3])

\* the handlers registered for event_type when the last publish was made
Registered(event_type) ==
    RegisteredAfter(SubSeq(history, 1, published_at), event_type)

IsTopLevel(c) == c.depth = 0

\* the invocations publish made itself (not those of a nested publish)
TopLevelCalls == SelectSeq(calls, IsTopLevel)

\* C4: a publish that returns has invoked the handlers subscribed for exactly
\* the event's type, once per subscription and in the order of the subscribe
\* calls, all before it returned; a handler runs only for a type it is
\* subscribed for.
C4_PublishInvokesInOrder ==
    outcome = "returned" =>
        LET reg == Registered(lastEvent)
        IN  /\ Len(TopLevelCalls) = Len(reg)
            /\ \A i \in 1..Len(reg) :
                   /\ TopLevelCalls[i].handler = reg[i]
                   /\ TopLevelCalls[i].event = lastEvent
            /\ \A k \in 1..Len(calls) :
                   \E i \in 1..Len(Registered(calls[k].event)) :
                       Registered(calls[k].event)[i] = calls[k].handler

\* Two different handlers of the published type ran, and a handler subscribed
\* only for the other type did not.
C4_Witness ==
    /\ outcome = "returned"
    /\ Len(TopLevelCalls) = 2
    /\ TopLevelCalls[1].handler # TopLevelCalls[2].handler
    /\ \E t \in EventTypes \ {lastEvent} :
           /\ Len(Registered(t)) > 0
           /\ \A i \in 1..Len(Registered(t)) :
                  \A k \in 1..Len(calls) : calls[k].handler # Registered(t)[i]

\* C5: a handler that raises is swallowed: publish still invokes every
\* handler of the type, returns normally, and the tick runs to completion.
C5_RaisingHandlerIsSwallowed ==
    outcome # "none" =>
        /\ outcome = "returned"
        /\ tick_completed
        /\ Len(TopLevelCalls) = Len(Registered(lastEvent))

\* C6: the handlers of an event published by a handler run only after every
\* handler of the event being dispatched: no invocation of the outer publish
\* follows an invocation of a nested one.
C6_NestedPublishIsDeferred ==
    outcome = "returned" =>
        \A i, j \in 1..Len(calls) :
            (i < j /\ calls[i].depth > 0) => calls[j].depth > 0

-----------------------------------------------------------------------------
(***************************************************************************)
(* Fog of war: properties                                                  *)
(***************************************************************************)

\* C7: a fog cell of any team never goes from VISIBLE or EXPLORED back to
\* HIDDEN, whatever the entities do between the updates.
C7_FogNeverReturnsToHidden ==
    [][\A t \in Teams : \A c \in Tiles :
           fog[t][c] # HIDDEN => fog'[t][c] # HIDDEN]_vars

\* A tile that lost its vision source is remembered as EXPLORED.
C7_Witness ==
    /\ fog_fresh
    /\ \E t \in Teams : \E c \in Tiles :
           /\ fog[t][c] = EXPLORED
           /\ \E id \in EntityIds :
                  /\ entities[id].team = t
                  /\ ~entities[id].alive
                  /\ entities[id].x = c[1] /\ entities[id].y = c[2]

\* tile c lies in the vision disc of a live entity of team t
InSomeDisc(t, c) ==
    \E id \in EntityIds :
        LET e == entities[id]
        IN  /\ e.alive
            /\ e.team = t
            /\ (c[1] - e.x) * (c[1] - e.x) + (c[2] - e.y) * (c[2] - e.y)
                   <= e.vision * e.vision

\* C9: after a fog update a tile is VISIBLE for team t exactly if it lies in
\* the vision disc of a live entity of t; a tile that was VISIBLE and lies in
\* no such disc is EXPLORED; the other tiles keep their state.
C9_FogUpdateRevealsDiscs ==
    [][fog_fresh' =>
          \A t \in Teams : \A c \in Tiles :
              /\ fog'[t][c] = VISIBLE <=> InSomeDisc(t, c)
              /\ (fog[t][c] = VISIBLE /\ ~InSomeDisc(t, c)) => fog'[t][c] = EXPLORED
              /\ (fog[t][c] # VISIBLE /\ ~InSomeDisc(t, c)) => fog'[t][c] = fog[t][c]]_vars

\* After an update a tile is EXPLORED for t although a dead entity of t and a
\* live entity of the other team have it in their discs, while t still sees
\* other tiles and has never seen some.
C9_Witness ==
    /\ fog_fresh
    /\ \E t \in Teams : \E c \in Tiles :
           /\ fog[t][c] = EXPLORED
           /\ \E id \in EntityIds :
                  /\ entities[id].team = t /\ ~entities[id].alive
                  /\ (c[1] - entities[id].x) * (c[1] - entities[id].x)
                       + (c[2] - entities[id].y) * (c[2] - entities[id].y)
                         <= entities[id].vision * entities[id].vision
           /\ \E u \in Teams \ {t} : InSomeDisc(u, c)
           /\ \E d \in Tiles : fog[t][d] = VISIBLE
           /\ \E d \in Tiles : fog[t][d] = HIDDEN

-----------------------------------------------------------------------------
(***************************************************************************)
(* The game: properties                                                    *)
(***************************************************************************)

EventsOf(type, team) ==
    {i \in 1..Len(events) : events[i].type = type /\ events[i].team = team}

\* a tick has run to its end and the next has not begun
AfterTick == pc = "idle" /\ ran # <<>>

\* C1: in every reachable state, also between two systems of a tick, no
\* team's mineral total is negative.
C1_MineralsNeverNegative == \A t \in Teams : team_minerals[t] >= 0

\* In one tick the player's base started a Worker, one of the player's
\* workers placed a Barracks with all that was left, and another worker,
\* due to place in the same tick, was refused and waits.
C1_Witness ==
    /\ AfterTick
    /\ EventsOf("ProductionStartedEvent", PLAYER) # {}
    /\ EventsOf("BuildingPlacedEvent", PLAYER) # {}
    /\ EventsOf("WorkerWaitingForMineralsEvent", PLAYER) # {}
    /\ team_minerals[PLAYER] = 0

FullQueue(i) == entities[i].alive /\ Len(entities[i].production_queue) = 5

\* C2: no building's production queue holds more than 5 items; on a queue of
\* 5 queue_production returns False and changes nothing, and the player's
\* production request on such a building leaves the entities (queue and
\* progress) and the mineral totals as they are.
C2_QueueHoldsAtMostFive ==
    /\ \A i \in EntityIds : Len(entities[i].production_queue) <= 5
    /\ \A i \in EntityIds :
           FullQueue(i) =>
               /\ ~queue_production_result(entities[i])
               /\ start_production(entities[i]) = entities[i]
               /\ (CanCommand /\ first_selected(selected_ids) = i) =>
                      /\ request_production(G).entities = entities
                      /\ request_production(G).team_minerals = team_minerals

\* The player asked for a unit from a building whose queue held 5, and was
\* refused.
C2_Witness ==
    /\ result = "False"
    /\ first_selected(selected_ids) # 0
    /\ FullQueue(first_selected(selected_ids))

\* C3: after every tick every live entity is on a tile of the map that can
\* be walked on.
C3_LiveEntitiesOnWalkableTiles ==
    AfterTick =>
        \A i \in EntityIds :
            entities[i].alive => is_walkable(entities[i].x, entities[i].y)

\* C8: after every tick the tile under the live base of a team is VISIBLE
\* in the team's fog.
C8_OwnBaseTileVisible ==
    AfterTick =>
        \A t \in Teams :
            LET base == get_base(entities, t)
            IN  base # 0 => fog[t][<<entities[base].x, entities[base].y>>] = VISIBLE

\* A tick has ended with both bases alive, and the tile of the player's base
\* is seen by no unit of the player: it is lit by the base alone.
C8_Witness ==
    /\ AfterTick
    /\ \A t \in Teams : get_base(entities, t) # 0
    /\ LET base == entities[get_base(entities, PLAYER)]
       IN  /\ fog[PLAYER][<<base.x, base.y>>] = VISIBLE
           /\ \A i \in EntityIds :
                  (IsLiveOfTeam(entities[i], PLAYER) /\ IsUnit(entities[i])) =>
                      ~InVision(base.x - entities[i].x, base.y - entities[i].y,
                                entities[i].vision)

SystemsInOrder ==
    <<"Movement", "Combat", "Resources", "Production", "BuildingPlacement",
      "FogOfWar", "AI">>

\* C10: the calls a tick has made so far are the first of Movement, Combat,
\* Resources, Production, BuildingPlacement, FogOfWar, AI, victory check,
\* the call it is about to make is the next of them, and a tick begun while
\* the game was not over has made all eight when it ends.
C10_SystemsRunOnceInOrder ==
    LET all == Append(SystemsInOrder, "check_victory")
    IN  /\ Len(ran) <= Len(all)
        /\ ran = SubSeq(all, 1, Len(ran))
        /\ pc # "idle" => Len(ran) < Len(all) /\ pc = all[Len(ran) + 1]
        /\ (pc = "idle" /\ game_time > 0
               /\ (~game_over \/ game_over_time = game_time)) => ran = all

\* A tick has run all seven systems and then the victory check, and the
\* systems changed the game on the way (a unit was produced).
C10_Witness ==
    /\ pc = "idle"
    /\ ran = Append(SystemsInOrder, "check_victory")
    /\ EventsOf("ProductionCompletedEvent", PLAYER) # {}


-----------------------------------------------------------------------------
(***************************************************************************)
(* Skirmishes: properties                                                  *)
(***************************************************************************)

\* the events of one type the completed ticks have published, in order
Logged(type) == SelectSeq(log, LAMBDA e : e.type = type)

\* C11: once the game is over, a step of the game only advances game_time
\* by the length of a tick: entities, fog, minerals, patches, the state of
\* the systems and of the AI, the selection and the verdict stay as they
\* are, and nothing is published.
C11_GameOverFreezesTheWorld ==
    [][game_over =>
          /\ game_time' = game_time + SIM_DT
          /\ events' = <<>>
          /\ UNCHANGED <<entities, fog, team_minerals, minerals, sysVars,
                         uiVars, game_over, winner, game_over_time, log>>]_vars

\* two ticks after the end of the game, with a soldier whose cooldown a
\* running combat system would have counted down
C11_Witness ==
    /\ game_over
    /\ pc = "idle"
    /\ game_time >= game_over_time + 2 * SIM_DT
    /\ \E i \in EntityIds :
           /\ entities[i].kind = "Soldier"
           /\ entities[i].alive
           /\ entities[i].cooldown_remaining > 0


\* the teams with no live base
Fallen == {t \in Teams : get_base(entities, t) = 0}

\* C12: the check that ends a tick declares the game over exactly when a
\* team has no live base, with the opponent of such a team as the winner
\* and the game time of that tick as game_over_time; once the game is over
\* it stays over, and winner and game_over_time never change again.
C12_VictoryRecordedOnce ==
    [][/\ (pc = "check_victory" /\ pc' = "idle" /\ ~game_over) =>
              IF Fallen = {}
              THEN ~game_over' /\ winner' = 0 /\ game_over_time' = -1
              ELSE /\ game_over'
                   /\ \E t \in Fallen : winner' = 3 - t
                   /\ game_over_time' = game_time
       /\ game_over =>
              /\ game_over'
              /\ winner' = winner
              /\ game_over_time' = game_over_time]_vars

\* the AI's base has fallen, the player's stands, and a tick has passed
\* since the game was declared over
C12_Witness ==
    /\ pc = "idle"
    /\ game_over
    /\ winner = 1
    /\ Fallen = {2}
    /\ game_over_time > 0
    /\ game_time >= game_over_time + SIM_DT


\* the events published so far, those of the tick under way included
SoFar == IF pc = "idle" THEN log ELSE log \o Stamped(events, game_time)

\* the ProductionStarted and ProductionCompleted events of a building
ProductionEvents(b) ==
    SelectSeq(SoFar, LAMBDA e :
        /\ e.id = b
        /\ e.type \in {"ProductionStartedEvent", "ProductionCompletedEvent"})

\* the units of the kind a building makes that its team has got since the
\* start
NewUnits(b) ==
    {i \in EntityIds :
        /\ i > Len(began.entities)
        /\ entities[i].kind = ProducedBy(entities[b].kind)
        /\ entities[i].team = entities[b].team}

\* C13: a live building that was asked k times for its unit, by a team
\* holding k times the cost: its ProductionStarted and ProductionCompleted
\* events alternate, a start first (so at most one item is in progress);
\* every start has taken the cost once, every completion has added one unit
\* and removed one item from the queue; and when the queue is empty there
\* have been k starts and k completions, k new units and k times the cost
\* spent.
C13_QueuedUnitsAreAllProduced ==
    \A b \in 1..Len(began.entities) :
        LET k == Len(began.entities[b].production_queue)
            team == entities[b].team
            cost == CostOf(ProducedBy(entities[b].kind))
            pe == ProductionEvents(b)
            started == Len(SelectSeq(pe, LAMBDA e : e.type = "ProductionStartedEvent"))
            completed == Len(pe) - started
        IN  (/\ k > 0
             /\ began.team_minerals[team] >= k * cost
             /\ entities[b].alive) =>
                /\ \A i \in 1..Len(pe) :
                       pe[i].type = IF i % 2 = 1 THEN "ProductionStartedEvent"
                                    ELSE "ProductionCompletedEvent"
                /\ Len(entities[b].production_queue) = k - completed
                /\ Cardinality(NewUnits(b)) = completed
                /\ team_minerals[team] = began.team_minerals[team] - started * cost
                /\ entities[b].production_queue = <<>> =>
                       started = k /\ completed = k

\* five workers asked of a base, all five made and paid for
C13_Witness ==
    \E b \in 1..Len(began.entities) :
        /\ Len(began.entities[b].production_queue) = MAX_QUEUE_SIZE
        /\ entities[b].production_queue = <<>>
        /\ Cardinality(NewUnits(b)) = MAX_QUEUE_SIZE
        /\ team_minerals[entities[b].team] =
               began.team_minerals[entities[b].team] - MAX_QUEUE_SIZE * WorkerCost


\* the buildings of the team of b, b apart, that have something to make
OtherProducers(b) ==
    {i \in EntityIds \ {b} :
        /\ entities[i].team = entities[b].team
        /\ entities[i].alive
        /\ entities[i].production_queue # <<>>}

\* b's ProductionStarted among the events the step under way adds
StartedNow(b) ==
    \E i \in (Len(events) + 1)..Len(events') :
        events'[i].type = "ProductionStartedEvent" /\ events'[i].id = b

\* C14: when the production system meets a live building, the only one of
\* its team with a queue, whose head item has not started: if the team
\* holds less than the cost, the building is marked waiting_for_minerals
\* and minerals, progress and queue stay as they are, with no
\* ProductionStarted; if the team holds the cost, the cost is deducted once,
\* ProductionStarted is published and the building is no longer waiting.
C14_ProductionWaitsForMinerals ==
    [][\A b \in EntityIds :
          LET e == entities[b]
              cost == CostOf(ProducedBy(e.kind))
              funds == team_minerals[e.team]
          IN  (/\ pc = "Production" /\ pc' # pc
               /\ IsBuilding(e) /\ e.alive
               /\ e.production_queue # <<>>
               /\ e.production_progress = 0
               /\ OtherProducers(b) = {}) =>
                  IF funds < cost
                  THEN /\ entities'[b].waiting_for_minerals
                       /\ entities'[b].production_progress = 0
                       /\ entities'[b].production_queue = e.production_queue
                       /\ team_minerals'[e.team] = funds
                       /\ ~StartedNow(b)
                  ELSE /\ ~entities'[b].waiting_for_minerals
                       /\ team_minerals'[e.team] = funds - cost
                       /\ StartedNow(b)
                       /\ \/ entities'[b].production_progress > 0
                          \/ Len(entities'[b].production_queue) =
                                 Len(e.production_queue) - 1]_vars

\* a building that could not pay at the first tick has waited, flagged, and
\* has started its item at a later one
C14_Witness ==
    \E b \in 1..Len(began.entities) :
        /\ began.team_minerals[entities[b].team] <
               CostOf(ProducedBy(entities[b].kind))
        /\ ProductionEvents(b) # <<>>
        /\ ProductionEvents(b)[1].time > SIM_DT
        /\ entities[b].production_progress > 0
        /\ ~entities[b].waiting_for_minerals


\* C15: when a tick has ended, no entity that is not alive is left in
\* World.entities.
C15_DeadEntitiesAreRemoved ==
    AfterTick => \A i \in EntityIds : entities[i].alive

\* the attacks made on an entity so far
AttacksOn(victim) ==
    SelectSeq(SoFar, LAMBDA e : e.type = "AttackEvent" /\ e.a = victim)

\* the deaths published so far for an entity
DeathsOf(victim) ==
    SelectSeq(SoFar, LAMBDA e : e.type = "DeathEvent" /\ e.id = victim)

\* C16: the duel of a soldier (damage 10, cooldown 1 s) with a worker of
\* HP 20 beside it: when the run has ended there have been three attacks
\* and one Death, the Death in the tick of the third attack (the attacks
\* come a cooldown apart from t = 0, the third at t = 2 s), and the worker
\* is no longer in World.entities.
C16_DuelTakesThreeAttacks ==
    (/\ began.entities = Queued(setup(Spawned(Duel.ents), Duel.patches), Duel.ids)
     /\ pc = "idle"
     /\ game_time = horizon) =>
        \E victim \in 1..Len(began.entities) :
            /\ began.entities[victim].kind = "Worker"
            /\ Len(AttacksOn(victim)) = 3
            /\ Len(Logged("DeathEvent")) = 1
            /\ Len(DeathsOf(victim)) = 1
            /\ DeathsOf(victim)[1].time = AttacksOn(victim)[3].time
            /\ \A i \in EntityIds : entities[i].alive


\* C17: an entity has one Death event if it is not alive and none if it is
\* alive; a Death event is about an entity with no hit points left, names
\* its kind, and names as the killer the soldier whose attack, published
\* before it in the same tick, left the entity with 0 hit points; no other
\* attack on the entity was a killing blow.
C17_OneDeathEventPerKill ==
    /\ \A i \in EntityIds :
           Len(DeathsOf(i)) = IF entities[i].alive THEN 0 ELSE 1
    /\ \A k \in 1..Len(SoFar) :
           SoFar[k].type = "DeathEvent" =>
               LET d == SoFar[k]
                   victim == entities[d.id]
                   blows == {j \in 1..Len(SoFar) :
                                /\ SoFar[j].type = "AttackEvent"
                                /\ SoFar[j].a = d.id
                                /\ SoFar[j].b = 0}
               IN  /\ ~victim.alive
                   /\ victim.hp = 0
                   /\ d.what = victim.kind
                   /\ Cardinality(blows) = 1
                   /\ \A j \in blows :
                          /\ j < k
                          /\ SoFar[j].id = d.a
                          /\ SoFar[j].time = d.time

\* a worker killed in a tick in which two soldiers hit it
C17_Witness ==
    \E victim \in EntityIds :
        /\ Len(DeathsOf(victim)) = 1
        /\ DeathsOf(victim)[1].what = "Worker"
        /\ Cardinality({j \in 1..Len(SoFar) :
               /\ SoFar[j].type = "AttackEvent"
               /\ SoFar[j].a = victim
               /\ SoFar[j].time = DeathsOf(victim)[1].time}) >= 2
        /\ \E s \in EntityIds :
               /\ entities[s].kind = "Soldier"
               /\ s # DeathsOf(victim)[1].a
               /\ entities[s].target = 0


\* the BaseUnderAttack events published so far for a base
AlertsFor(base) ==
    SelectSeq(SoFar, LAMBDA e : e.type = "BaseUnderAttackEvent" /\ e.id = base)

\* C18: two BaseUnderAttack events for the same base are at least 10 s of
\* game time apart; in particular no tick publishes two for one base.
C18_BaseAlertsTenSecondsApart ==
    \A base \in EntityIds :
        \A i, j \in 1..Len(AlertsFor(base)) :
            i < j => AlertsFor(base)[j].time - AlertsFor(base)[i].time
                         >= BASE_ALERT_COOLDOWN

\* a base alerted twice, and hit in between
C18_Witness ==
    \E base \in EntityIds :
        /\ Len(AlertsFor(base)) = 2
        /\ \E i \in 1..Len(AttacksOn(base)) :
               /\ AlertsFor(base)[1].time < AttacksOn(base)[i].time
               /\ AttacksOn(base)[i].time < AlertsFor(base)[2].time

\* C19: an attack on a Base at a time when no BaseUnderAttack event for
\* that base was published in the 10 s before (none at all included) comes
\* with a BaseUnderAttack event for that base in the same tick.
C19_BaseAlertWheneverDue ==
    \A k \in 1..Len(SoFar) :
        LET hit == SoFar[k]
            recent == {i \in 1..Len(AlertsFor(hit.a)) :
                          /\ AlertsFor(hit.a)[i].time < hit.time
                          /\ hit.time - AlertsFor(hit.a)[i].time < BASE_ALERT_COOLDOWN}
        IN  (/\ hit.type = "AttackEvent"
             /\ entities[hit.a].kind = "Base"
             /\ recent = {}) =>
                \E i \in 1..Len(AlertsFor(hit.a)) :
                    AlertsFor(hit.a)[i].time = hit.time


-----------------------------------------------------------------------------
(***************************************************************************)
(* Campaigns: worlds prepared for the AI, on a map wide enough for its     *)
(* scouting waypoints, ticked with no player at the controls.              *)
(***************************************************************************)

FieldMap == [width |-> 10, height |-> 10, rocks |-> {<<0, 2>>}]

\* the workers the AI wants before it turns to its army, on one tile
Workforce == [i \in 1..TARGET_WORKERS |-> <<"Worker", AI_TEAM, 8, 8>>]

\* the AI with its workers, a barracks, the minerals of a barracks and three
\* soldiers, the first of them at the tile given
March(x, y) ==
    Skirmish(Workforce \o << <<"Barracks", AI_TEAM, 6, 3>>,
                             <<"Soldier", AI_TEAM, x, y>>,
                             <<"Soldier", AI_TEAM, 8, 6>>,
                             <<"Soldier", AI_TEAM, 9, 6>> >>,
             <<>>, [NoFunds EXCEPT ![AI_TEAM] = BarracksCost], <<>>)

\* the AI with its workers and the minerals of two barracks
Founding ==
    Skirmish(Workforce, <<>>, [NoFunds EXCEPT ![AI_TEAM] = 2 * BarracksCost], <<>>)

\* the AI with four workers beside a patch and the minerals of one worker
Opener ==
    Skirmish([i \in 1..MIN_WORKERS |-> <<"Worker", AI_TEAM, 4, 3>>],
             <<[x |-> 5, y |-> 3, minerals |-> PatchMinerals]>>,
             [NoFunds EXCEPT ![AI_TEAM] = WorkerCost], <<>>)

\* a soldier that sees the player's base from the start, and one that comes
\* to see it on its way
Campaigns == {March(2, 1), March(3, 2), Founding, Opener}

InitCampaign == InitOn(FieldMap, Campaigns, SkirmishTicks)

SpecCampaign == InitCampaign /\ [][NextTicks]_vars

-----------------------------------------------------------------------------
(***************************************************************************)
(* The AI on its own: AISystem.update(dt) called again and again with      *)
(* steps shorter than its cooldown, and the ProductionSystem at work in    *)
(* between. The clock of the run advances with the updates of the AI; the  *)
(* log keeps the commands of the AI with the time of each.                 *)
(***************************************************************************)

\* the lengths of a step of the AI, in seconds
TickLengths == {1, 2}

\* the AI short of a worker, with the minerals of two
Recruit ==
    Skirmish([i \in 1..(MIN_WORKERS - 1) |-> <<"Worker", AI_TEAM, 4, 3>>],
             <<>>, [NoFunds EXCEPT ![AI_TEAM] = 2 * WorkerCost], <<>>)

\* the AI with its workers, a barracks and the minerals of two soldiers
Garrison ==
    Skirmish(Workforce \o << <<"Barracks", AI_TEAM, 6, 3>> >>,
             <<>>, [NoFunds EXCEPT ![AI_TEAM] = BarracksCost], <<>>)

AIWorlds == {Recruit, Opener, Founding, Garrison, March(2, 1)}

InitAI == InitOn(FieldMap, AIWorlds, MaxTicks + 1)

\* the decisions of the AI that are commands
AICommands == {"build_worker", "build_soldier", "build_barracks"}

Commanded(evs, now) ==
    LET cmds == SelectSeq(evs, LAMBDA ev : /\ ev.type = "AIDecisionEvent"
                                           /\ ev.what \in AICommands)
    IN  [k \in 1..Len(cmds) |-> [cmds[k] EXCEPT !.a = now]]

\* _find_build_position draws a site only when _do_military_prep has a
\* worker to send: no barracks, no worker on its way to build, the minerals
SitesDrawn ==
    IF /\ ai.state = "military"
       /\ get_base(entities, AI_TEAM) # 0
       /\ team_minerals[AI_TEAM] >= BarracksCost
       /\ \A i \in EntityIds :
              entities[i].team = AI_TEAM => /\ entities[i].build_target = None
                                           /\ entities[i].kind # "Barracks"
    THEN SiteChoices(entities, get_base(entities, AI_TEAM))
    ELSE {None}

\* AISystem.update(dt)
AIAlone ==
    /\ pc = "idle"
    /\ ~ScoutingRaises(Cur)
    /\ \E dt \in TickLengths :
           /\ game_time + dt <= horizon
           /\ game_time' = game_time + dt
           /\ \E build_pos \in SitesDrawn :
                  \E waypoints \in
                         IF ScoutRange = {} THEN {<<>>}
                         ELSE [1..ScoutDraws -> ScoutRange] :
                      Install(ai_update([Cur EXCEPT !.events = <<>>], dt,
                                        build_pos, waypoints))
    /\ log' = log \o Commanded(events', game_time')
    /\ UNCHANGED <<fog, pc, ran, game_over, winner, game_over_time, runVars,
                   uiVars, busVars, fogVars>>

\* ProductionSystem.update(dt), between two updates of the AI
ProductionAlone ==
    /\ pc = "idle"
    /\ \E offsets \in [Completing(entities) -> SpawnJitter] :
           Install(ProductionUpdate([Cur EXCEPT !.events = <<>>], offsets))
    /\ UNCHANGED <<fog, pc, ran, clockVars, uiVars, busVars, fogVars>>

NextAI == AIAlone \/ ProductionAlone

SpecAI == InitAI /\ [][NextAI]_vars

-----------------------------------------------------------------------------
(***************************************************************************)
(* The pathfinder on its own: a unit on a tile of a map, with a            *)
(* destination, is given its path as MovementSystem.update gives it one:   *)
(* unit.path = pathfinder.find_path((unit.x, unit.y), unit.destination).   *)
(***************************************************************************)

\* a wall across most of the map, open at the bottom
WallMap == [width |-> 10, height |-> 10, rocks |-> {<<5, y>> : y \in 0..7}]

\* a wall from edge to edge
SplitMap == [width |-> 5, height |-> 5, rocks |-> {<<2, y>> : y \in 0..4}]

\* a block of rock with a rim of ground around it
PitMap == [width |-> 5, height |-> 5, rocks |-> (1..3) \X (1..3)]

TilesOf(map) == (0..(map.width - 1)) \X (0..(map.height - 1))

\* the tiles a unit is sent from
StartsOn(map) ==
    IF map = WallMap THEN {<<2, 4>>, <<4, 0>>}
    ELSE TilesOf(map) \ map.rocks

\* the tiles a unit is sent to: those of the map, one beside the map and one
\* far from it
GoalsOn(map) ==
    TilesOf(map) \cup {<<-1, 0>>, <<map.width + 9, map.height + 9>>}

PathMaps == {ScenarioMap, WallMap, SplitMap, PitMap}

\* a world with nothing in it but the entities given, and no game running
InitAlone ==
    /\ InitBus
    /\ InitFogVars
    /\ fog = [t \in Teams |-> NewFog]
    /\ minerals = <<>>
    /\ team_minerals = NoFunds
    /\ pc = "idle"
    /\ ran = <<>>
    /\ game_time = 0
    /\ game_over = FALSE
    /\ winner = 0
    /\ game_over_time = -1
    /\ horizon = 0
    /\ events = <<>>
    /\ selected_ids = {}
    /\ build_mode = FALSE
    /\ build_type = "none"
    /\ commands = 0
    /\ result = "none"
    /\ stuck_timers = EmptyDict
    /\ base_attack_cooldown = EmptyDict
    /\ gather_timers = EmptyDict
    /\ build_timers = EmptyDict
    /\ mineral_warning_cooldown = EmptyDict
    /\ ai = NewAI
    /\ began = [entities |-> entities, team_minerals |-> team_minerals]
    /\ log = <<>>

InitPath ==
    /\ \E map \in PathMaps :
           /\ game_map = map
           /\ \E start \in StartsOn(map), goal \in GoalsOn(map) :
                  entities =
                      <<[NewEntity("Soldier", 1, start[1], start[2])
                            EXCEPT !.destination = goal]>>
    /\ InitAlone

\* unit.path = self.pathfinder.find_path((unit.x, unit.y), unit.destination)
FindPath ==
    /\ ran = <<>>
    /\ entities' =
           [entities EXCEPT ![1].path =
               find_path(<<entities[1].x, entities[1].y>>,
                         entities[1].destination)]
    /\ ran' = <<"find_path">>
    /\ UNCHANGED <<fog, pc, clockVars, team_minerals, minerals, events,
                   uiVars, sysVars, busVars, fogVars>>

NextPath == FindPath

SpecPath == InitPath /\ [][NextPath]_vars

-----------------------------------------------------------------------------
(***************************************************************************)
(* The group move on its own: calculate_group_destinations applied to a    *)
(* group of units, a target and a map.                                     *)
(***************************************************************************)

\* most units in a group
MaxGroup == 3

\* a block of rock five tiles wide
BlockMap == [width |-> 7, height |-> 7, rocks |-> (1..5) \X (1..5)]

\* the same block with a hole in its middle
CellMap == [width |-> 7, height |-> 7,
            rocks |-> ((1..5) \X (1..5)) \ {<<3, 3>>}]

GroupMaps == {ScenarioMap, PitMap, BlockMap, CellMap}

\* the targets of a move: the tiles of the map and tiles beside it
TargetsOn(map) ==
    TilesOf(map) \cup {<<-1, -1>>, <<-3, 0>>, <<map.width, map.height - 1>>}

InitGroup ==
    /\ \E map \in GroupMaps :
           /\ game_map = map
           /\ \E n \in 1..MaxGroup :
                  entities = [i \in 1..n |-> NewEntity("Soldier", 1, 0, 0)]
    /\ InitAlone

\* destinations = calculate_group_destinations(units, target, game_map),
\* each unit given its destination
GroupMove ==
    /\ ran = <<>>
    /\ \E target \in TargetsOn(game_map) :
           entities' = group_move(entities, [i \in EntityIds |-> i], target)
    /\ ran' = <<"group_move">>
    /\ UNCHANGED <<fog, pc, clockVars, team_minerals, minerals, events,
                   uiVars, sysVars, busVars, fogVars>>

NextGroup == GroupMove

SpecGroup == InitGroup /\ [][NextGroup]_vars

-----------------------------------------------------------------------------
(***************************************************************************)
(* Units that cannot get where they are sent.                              *)
(***************************************************************************)

\* a map of rock but for the tiles of the two bases, one tile in a corner
\* and a site for a building in the corner across
IslandMap ==
    [width |-> 10, height |-> 10,
     rocks |-> ((0..9) \X (0..9)) \
                   ({BasePos(1), BasePos(2), <<0, 9>>} \cup ((8..9) \X (0..1)))]

\* a world with the worker that came last told to build a barracks at a tile
Told(s, x, y) ==
    LET g == Prepared(s)
    IN  [g EXCEPT !.entities[Len(g.entities)].build_target = <<"Barracks", x, y>>]

\* a worker on the tile in the corner, told to build at the site
Marooned ==
    Told(Skirmish(<< <<"Worker", 1, 0, 9>> >>, <<>>, NoFunds, <<>>), 8, 0)

\* a worker told to build behind a wall from edge to edge
Stranded ==
    Told(Skirmish(<< <<"Worker", 1, 0, 1>> >>, <<>>, NoFunds, <<>>), 3, 0)

\* the games of units that cannot get where they are sent, and of units
\* that can
InitStuck ==
    \/ InitGame(IslandMap, {Marooned}, SkirmishTicks)
    \/ InitGame(SplitMap, {Stranded}, SkirmishTicks)
    \/ InitOn(ScenarioMap, {Switch, Gang}, SkirmishTicks)

SpecStuck == InitStuck /\ [][NextTicks]_vars

-----------------------------------------------------------------------------
(***************************************************************************)
(* Workers sent to build, with the player at the controls.                 *)
(***************************************************************************)

\* a world with the entity that came last selected, as a click on it leaves
\* it
Chosen(g) == [g EXCEPT !.selected_ids = {Len(g.entities)}]

\* the minerals of k barracks for the player
Funds(k) == [NoFunds EXCEPT ![PLAYER] = k * BarracksCost]

\* a soldier on the far tile of the site, and the worker beside the site
Trespass ==
    Told(Skirmish(<< <<"Soldier", 1, 5, 1>>, <<"Worker", 1, 3, 0>> >>,
                  <<>>, Funds(1), <<>>), 4, 0)

\* a soldier beside the corner of the site
Blocked ==
    Told(Skirmish(<< <<"Soldier", 1, 4, 1>>, <<"Worker", 1, 3, 0>> >>,
                  <<>>, Funds(1), <<>>), 4, 0)

\* a site off the map, and a site with a rock in it
Astray ==
    Told(Skirmish(<< <<"Worker", 1, 3, 0>> >>, <<>>, Funds(1), <<>>), 5, 0)

OnRock ==
    Told(Skirmish(<< <<"Worker", 1, 1, 1>> >>, <<>>, Funds(1), <<>>), 0, 1)

\* the worker beside a free site, selected, with the minerals of two
\* barracks; and two tiles further off
Builder ==
    Chosen(Told(Skirmish(<< <<"Worker", 1, 3, 0>> >>, <<>>, Funds(2), <<>>),
                4, 0))

Walker ==
    Chosen(Told(Skirmish(<< <<"Worker", 1, 1, 1>> >>, <<>>, Funds(2), <<>>),
                4, 0))

\* a worker on its way to a patch, told to build beside it
Errand ==
    Told(Skirmish(<< <<"Worker", 1, 3, 0>> >>,
                  <<[x |-> 3, y |-> 1, minerals |-> PatchMinerals]>>,
                  Funds(1), <<>>), 4, 0)

BuildStarts == {Trespass, Blocked, Astray, OnRock, Builder, Walker, Errand}

\* ticks in a game of builders
BuildTicks == 6

InitBuild == InitGame(ScenarioMap, BuildStarts, BuildTicks)

NextBuild ==
    \/ TickBegin
    \/ MovementStep
    \/ CombatStep
    \/ ResourceStep
    \/ ProductionStep
    \/ BuildingStep
    \/ FogStep
    \/ AIStep
    \/ VictoryStep
    \/ \E c \in ClickTargets : Click(c[1], c[2])
    \/ StartBuildMode

SpecBuild == InitBuild /\ [][NextBuild]_vars

-----------------------------------------------------------------------------
(***************************************************************************)
(* Game.__init__ and Game.reset, as the event bus sees them.  The bus is   *)
(* the module-level event_bus: it outlives the Game and its handlers.      *)
(***************************************************************************)

\* most resets in a run
MaxResets == 3

\* the event types the handlers of a Game listen to (of GameMessageSystem's
\* five, the one the combat system publishes)
GameEventTypes == {"DeathEvent", "AttackEvent", "BaseUnderAttackEvent"}

\* the bound method obj.method of the object built in round r; every
\* construction makes a new object, so a new callable
Bound(method, r) == method \o "#" \o ToString(r)

\* the subscribe calls of the constructors Game.__init__ and Game.reset
\* run, in order: GameMessageSystem, ExplosionHandler (or
\* FestiveExplosionHandler), AttackFlashHandler, LoggerHandler(verbose=True)
Constructed(verbose, xmas, r) ==
    << <<"subscribe", "BaseUnderAttackEvent",
         Bound("messages.on_base_under_attack", r)>>,
       <<"subscribe", "DeathEvent",
         Bound(IF xmas = "xmas" THEN "festive_explosion_handler.on_death"
               ELSE "explosion_handler.on_death", r)>>,
       <<"subscribe", "AttackEvent", Bound("attack_handler.on_attack", r)>> >>
    \o (IF verbose = "verbose"
        THEN << <<"subscribe", "DeathEvent", Bound("logger.on_death", r)>>,
                <<"subscribe", "AttackEvent", Bound("logger.on_attack", r)>> >>
        ELSE <<>>)

\* the registry after the subscribe calls of a list, made on the registry
\* given
RECURSIVE Subscribed(_, _)
Subscribed(subs, made) ==
    IF made = <<>> THEN subs
    ELSE Subscribed([subs EXCEPT ![Head(made)[2]] = Append(@, Head(made)[3])],
                    Tail(made))

\* (a reset that clears the bus before it builds the handlers)
reset_cleared(subs) == [t \in DOMAIN subs |-> <<>>]

\* what Game.reset does to the registry before it builds the new handlers:
\* nothing
reset_kept(subs) == subs

\* the rounds played: the game constructed and the resets since
Round(hist) == Cardinality({k \in 1..Len(hist) : hist[k][1] \in {"Game", "reset"}})

\* how the game was constructed: the first entry of the history
Verbose == history[1][2]

Xmas == history[1][3]

\* Game(verbose, xmas) followed by nothing else
InitReset ==
    /\ InitMap /\ InitWorld /\ InitFogVars /\ InitGameVars
    /\ \E verbose \in {"verbose", "quiet"}, xmas \in {"xmas", "plain"} :
           /\ history = << <<"Game", verbose, xmas>> >>
                            \o Constructed(verbose, xmas, 1)
           /\ subscribers = Subscribed([t \in GameEventTypes |-> <<>>],
                                       Constructed(verbose, xmas, 1))
    /\ calls = <<>>
    /\ lastEvent = "none"
    /\ outcome = "none"
    /\ published_at = 0
    /\ tick_completed = TRUE

\* Game.reset: a new World and new systems, a new GameMessageSystem, new
\* effect handlers, a new SelectionManager, and setup() again
Reset ==
    /\ Round(history) <= MaxResets
    /\ LET made == Constructed(Verbose, Xmas, Round(history) + 1)
       IN  /\ subscribers' = Subscribed(reset_kept(subscribers), made)
           /\ history' = history \o << <<"reset", "none", "none">> >> \o made
    /\ entities' = setup(ScenarioEntities, ScenarioMinerals)
    /\ fog' = [t \in Teams |-> NewFog]
    /\ team_minerals' = [t \in Teams |-> StartingMinerals]
    /\ minerals' = ScenarioMinerals
    /\ game_time' = 0
    /\ game_over' = FALSE
    /\ winner' = 0
    /\ game_over_time' = -1
    /\ selected_ids' = {}
    /\ build_mode' = FALSE
    /\ build_type' = "none"
    /\ stuck_timers' = EmptyDict
    /\ base_attack_cooldown' = EmptyDict
    /\ gather_timers' = EmptyDict
    /\ build_timers' = EmptyDict
    /\ mineral_warning_cooldown' = EmptyDict
    /\ ai' = NewAI
    /\ UNCHANGED <<calls, lastEvent, outcome, published_at, tick_completed,
                   fogVars, pc, ran, runVars, log, events, commands, result>>

NextReset ==
    \/ Reset
    \/ \E t \in GameEventTypes : publish(t)

SpecReset == InitReset /\ [][NextReset]_vars

-----------------------------------------------------------------------------
(***************************************************************************)
(* Gathering: properties                                                   *)
(***************************************************************************)

RECURSIVE SumOf(_, _)
SumOf(f, S) ==
    IF S = {} THEN 0
    ELSE LET i == CHOOSE i \in S : TRUE IN f[i] + SumOf(f, S \ {i})

\* the workers that complete a gather on patch p in this step
Completed(p) ==
    {i \in EntityIds :
        /\ entities[i].kind = "Worker"
        /\ entities[i].gather_target = p
        /\ entities[i].state = "gathering"
        /\ entities'[i].state = "returning"}

\* C21: when workers complete a gather, what leaves the patch is what they
\* pick up, that is min(GATHER_AMOUNT, what the patch holds) for each in
\* turn; a patch never goes below 0 and is changed by nothing else, so a
\* patch with one mineral left gives 1 and stays depleted
C21_GatherMovesWhatThePatchHolds ==
    [][\A p \in 1..Len(minerals) :
          LET done == Completed(p)
              before == minerals[p].minerals
              moved == SumOf([i \in done |-> entities'[i].carrying], done)
          IN  /\ minerals'[p].minerals = before - moved
              /\ minerals'[p].minerals >= 0
              /\ moved = Min(before, GATHER_AMOUNT * Cardinality(done))
              /\ \A i \in done :
                     /\ entities'[i].carrying \in 1..GATHER_AMOUNT
                     /\ done = {i} =>
                            entities'[i].carrying = Min(GATHER_AMOUNT, before)
              /\ before = 1 /\ done # {} =>
                     /\ moved = 1
                     /\ depleted(minerals'[p])]_vars

\* a worker holds the last mineral of its patch
C21_Witness ==
    \E i \in EntityIds :
        /\ entities[i].kind = "Worker"
        /\ entities[i].state = "returning"
        /\ entities[i].carrying = 1
        /\ entities[i].gather_target # 0
        /\ minerals[entities[i].gather_target].minerals = 0

\* C22: whenever a worker is given a gather target, goes back to its patch
\* after a delivery or starts gathering, the patch holds minerals; a worker
\* on its way to a patch that is depleted becomes idle
C22_GatherTargetsHoldMinerals ==
    [][\A i \in 1..Len(entities') :
          LET new == i > Len(entities)
              after == entities'[i]
              p == after.gather_target
              assigned == /\ p # 0
                          /\ new \/ entities[i].gather_target # p
              back == /\ ~new
                      /\ entities[i].state = "returning"
                      /\ after.state = "moving_to_mineral"
              starts == /\ ~new
                        /\ entities[i].state # "gathering"
                        /\ after.state = "gathering"
              q == IF new THEN 0 ELSE entities[i].gather_target
          IN  /\ after.kind = "Worker" /\ (assigned \/ back \/ starts) =>
                  /\ p # 0
                  /\ minerals[p].minerals > 0
              /\ /\ ~new
                 /\ pc = "Resources"
                 /\ entities[i].kind = "Worker"
                 /\ entities[i].alive
                 /\ get_base(entities, entities[i].team) # 0
                 /\ entities[i].state = "moving_to_mineral"
                 /\ q # 0
                 /\ depleted(minerals[q])
                 => /\ after.state = "idle"
                    /\ after.gather_target = 0]_vars

\* a worker that came to a patch emptied by another, before anything was
\* delivered, stands idle beside it, and the event of the depleted mine is
\* out
C22_Witness ==
    \E i \in EntityIds, p \in 1..Len(minerals) :
        /\ entities[i].kind = "Worker"
        /\ entities[i].state = "idle"
        /\ entities[i].gather_target = 0
        /\ entities[i].carrying = 0
        /\ team_minerals = began.team_minerals
        /\ depleted(minerals[p])
        /\ Dist2(minerals[p].x, minerals[p].y, entities[i].x, entities[i].y) <= 2
        /\ \E k \in 1..Len(events) :
               /\ events[k].type = "MineDepletedEvent"
               /\ events[k].id = i

\* C23: a worker on its way to a patch that holds minerals, before and after
\* the other workers' turns, and is within 1.5 tiles of it (beside it or
\* diagonally so) starts gathering in that tick: state gathering, timer 0,
\* GatheringStartedEvent published
C23_GatheringStartsWithinReach ==
    [][\A i \in EntityIds :
          /\ pc = "Resources"
          /\ entities[i].kind = "Worker"
          /\ entities[i].alive
          /\ get_base(entities, entities[i].team) # 0
          /\ entities[i].state = "moving_to_mineral"
          /\ entities[i].gather_target # 0
          /\ ~depleted(minerals[entities[i].gather_target])
          /\ ~depleted(minerals'[entities[i].gather_target])
          /\ 4 * Dist2(minerals[entities[i].gather_target].x,
                       minerals[entities[i].gather_target].y,
                       entities[i].x, entities[i].y) <= 9
          => /\ entities'[i].state = "gathering"
             /\ i \in DOMAIN gather_timers'
             /\ gather_timers'[i] = 0
             /\ \E k \in 1..Len(events') :
                    /\ events'[k].type = "GatheringStartedEvent"
                    /\ events'[k].id = i]_vars

-----------------------------------------------------------------------------
(***************************************************************************)
(* Pathfinding: properties                                                 *)
(***************************************************************************)

Found == ran = <<"find_path">>

PathStart == <<began.entities[1].x, began.entities[1].y>>

PathGoal == began.entities[1].destination

PathFound == entities[1].path

\* 8-neighbours
Neighbour(a, b) ==
    /\ a # b
    /\ Abs(a[1] - b[1]) <= 1
    /\ Abs(a[2] - b[2]) <= 1

\* the tiles of T and the walkable tiles beside them
Grow(T) ==
    T \cup {t \in TilesOf(game_map) :
               /\ is_walkable(t[1], t[2])
               /\ \E u \in T : Neighbour(u, t)}

\* the tiles that can be walked to from those of S (each round is bound to
\* its value before the next is taken)
RECURSIVE Reach(_)
Reach(S) ==
    CHOOSE r \in {(IF p[2] = p[1] THEN p[1] ELSE Reach(p[2])) :
                     p \in {<<S, Grow(S)>>}} : TRUE

\* the path is a walk from the start: each tile beside the one before, and
\* walkable
IsWalk(start, path) ==
    \A k \in 1..Len(path) :
        /\ Neighbour(IF k = 1 THEN start ELSE path[k - 1], path[k])
        /\ is_walkable(path[k][1], path[k][2])
        /\ path[k] # start

\* C24: for a walkable goal that can be walked to, find_path gives a walk
\* from the start, without the start, that ends at the goal; for the start
\* itself a path of length <= 1; for a walkable goal that cannot be walked
\* to, the empty path
C24_PathIsAWalkToTheGoal ==
    Found =>
        LET known == is_walkable(PathGoal[1], PathGoal[2])
            reachable == PathGoal \in Reach({PathStart})
        IN  /\ known /\ reachable /\ PathGoal # PathStart =>
                /\ PathFound # <<>>
                /\ IsWalk(PathStart, PathFound)
                /\ PathFound[Len(PathFound)] = PathGoal
            /\ PathGoal = PathStart => Len(PathFound) <= 1
            /\ known /\ ~reachable => PathFound = <<>>

\* a path around the wall, longer than the way through it would be
C24_Witness ==
    /\ Found
    /\ game_map = WallMap
    /\ PathStart = <<2, 4>>
    /\ PathGoal = <<8, 4>>
    /\ Len(PathFound) > 6
    /\ PathFound[Len(PathFound)] = PathGoal

\* a goal behind the wall from edge to edge, and no path to it
C24_WitnessUnreachable ==
    /\ Found
    /\ game_map = SplitMap
    /\ PathStart[1] < 2
    /\ PathGoal[1] \in 3..4 /\ PathGoal[2] \in 0..4
    /\ PathFound = <<>>

\* the distance in rings
Rings(a, b) == Max(Abs(a[1] - b[1]), Abs(a[2] - b[2]))

PathEnd == PathFound[Len(PathFound)]

\* the walkable tiles in the rings 1..9 around the goal
GroundAround(goal) ==
    {t \in TilesOf(game_map) :
        /\ is_walkable(t[1], t[2])
        /\ Rings(t, goal) \in 1..9}

\* C25 as first stated: a path found ends at the goal or, the goal being
\* unwalkable, at a walkable tile beside the goal; with no walkable tile in
\* the rings up to 9 the path is empty
C25_PathEndsAtOrBesideGoal ==
    Found =>
        /\ PathFound # <<>> =>
               IF is_walkable(PathGoal[1], PathGoal[2])
               THEN PathEnd = PathGoal
               ELSE /\ is_walkable(PathEnd[1], PathEnd[2])
                    /\ Neighbour(PathEnd, PathGoal)
        /\ /\ ~is_walkable(PathGoal[1], PathGoal[2])
           /\ GroundAround(PathGoal) = {}
           => PathFound = <<>>

\* C25: a path found ends at the goal or, the goal being unwalkable, at a
\* walkable tile of the nearest ring around the goal that has one, of the
\* rings 1 to 9; with no walkable tile in these rings the path is empty
C25_PathEndsAtGoalOrNearestGround ==
    Found =>
        /\ PathFound # <<>> =>
               IF is_walkable(PathGoal[1], PathGoal[2])
               THEN PathEnd = PathGoal
               ELSE /\ PathEnd \in GroundAround(PathGoal)
                    /\ \A t \in GroundAround(PathGoal) :
                           Rings(PathEnd, PathGoal) <= Rings(t, PathGoal)
        /\ /\ ~is_walkable(PathGoal[1], PathGoal[2])
           /\ GroundAround(PathGoal) = {}
           => PathFound = <<>>

\* sent into the middle of the block of rock, the unit is given a path to the
\* rim, two rings from its goal
C25_Witness ==
    /\ Found
    /\ game_map = PitMap
    /\ PathGoal = <<2, 2>>
    /\ PathFound # <<>>
    /\ Rings(PathEnd, PathGoal) = 2

\* the cost of a step: 1, or 1.414 on a diagonal
StepCost(a, b) == IF a[1] # b[1] /\ a[2] # b[2] THEN 1414 ELSE 1000

RECURSIVE PathCost(_, _)
PathCost(start, path) ==
    IF path = <<>> THEN 0
    ELSE StepCost(start, Head(path)) + PathCost(Head(path), Tail(path))

SetMin(S) == CHOOSE m \in S : \A x \in S : m <= x

\* one round of relaxation of the costs known so far
Relax(d) ==
    [t \in Grow(DOMAIN d) |->
        SetMin((IF t \in DOMAIN d THEN {d[t]} ELSE {})
                   \cup {d[u] + StepCost(u, t) :
                            u \in {u \in DOMAIN d : Neighbour(u, t)
                                       /\ is_walkable(t[1], t[2])}})]

\* the least cost of a walk to each tile that can be walked to
RECURSIVE Cheapest(_)
Cheapest(d) ==
    CHOOSE r \in {(IF p[2] = p[1] THEN p[1] ELSE Cheapest(p[2])) :
                     p \in {<<d, Relax(d)>>}} : TRUE

\* C26: the path found costs what the cheapest walk from the start to its
\* end costs; around the wall the path from (2, 4) to (8, 4) ends at (8, 4)
\* and passes column 5 at (5, 8) or (5, 9) only
C26_PathIsCheapest ==
    Found /\ PathFound # <<>> =>
        /\ PathCost(PathStart, PathFound) =
               Cheapest([t \in {PathStart} |-> 0])[PathEnd]
        /\ game_map = WallMap /\ PathStart = <<2, 4>> /\ PathGoal = <<8, 4>> =>
               /\ PathEnd = <<8, 4>>
               /\ \A k \in 1..Len(PathFound) :
                      PathFound[k][1] = 5 => PathFound[k][2] \in {8, 9}

\* the path around the wall, with straight and diagonal steps, through the
\* gap
C26_Witness ==
    /\ Found
    /\ game_map = WallMap
    /\ PathStart = <<2, 4>>
    /\ PathGoal = <<8, 4>>
    /\ \E k \in 1..Len(PathFound) : PathFound[k] \in {<<5, 8>>, <<5, 9>>}
    /\ PathCost(PathStart, PathFound) > 1000 * Len(PathFound)
    /\ PathCost(PathStart, PathFound) < 1414 * Len(PathFound)

-----------------------------------------------------------------------------
(***************************************************************************)
(* The AI: properties                                                      *)
(***************************************************************************)

\* the place of a state in OPENING -> ECONOMY -> MILITARY_PREP ->
\* ARMY_BUILD -> SCOUTING -> RAID
Rank(state) ==
    CASE state = "opening" -> 1
      [] state = "economy" -> 2
      [] state = "military" -> 3
      [] state = "army" -> 4
      [] state = "scouting" -> 5
      [] state = "raid" -> 6

Issued ==
    SumOf([i \in EntityIds |->
              IF entities[i].team # AI_TEAM THEN 0
              ELSE (IF Len(entities'[i].production_queue) >
                           Len(entities[i].production_queue)
                    THEN Len(entities'[i].production_queue) -
                             Len(entities[i].production_queue)
                    ELSE 0)
                   + (IF /\ entities[i].build_target = None
                         /\ entities'[i].build_target # None
                      THEN 1 ELSE 0)],
          EntityIds)

\* C28: the AI gives at most one command in a step, each command is
\* recorded with its time, and any two commands are at least ACTION_COOLDOWN
\* seconds of game time apart, whatever the states they were given in; the
\* clock of the AI runs with the game's
C28_CommandsTwoSecondsApart ==
    [][/\ Issued <= 1
       /\ Len(log') = Len(log) + Issued
       /\ ai'.state_timer - ai.state_timer = game_time' - game_time
       /\ \A k \in 1..Len(log') :
              /\ log'[k].a >= ACTION_COOLDOWN
              /\ k > 1 => log'[k].a - log'[k - 1].a >= ACTION_COOLDOWN]_vars

\* a worker ordered at the base and, ACTION_COOLDOWN seconds later and in
\* another state of the AI, another one
C28_Witness ==
    /\ Len(log) >= 2
    /\ log[2].a - log[1].a = ACTION_COOLDOWN
    /\ log[1].what = "build_worker"
    /\ ai.state = "economy"
    /\ Len(began.entities) < 2 + MIN_WORKERS

\* the workers of the AI on their way to build, and the barracks of the AI
\* that were not there when the run began
AIBuilders ==
    {i \in EntityIds : /\ entities[i].team = AI_TEAM
                       /\ entities[i].alive
                       /\ entities[i].build_target # None}

AIBarracksPlaced ==
    {i \in EntityIds : /\ entities[i].team = AI_TEAM
                       /\ entities[i].kind = "Barracks"
                       /\ i > Len(began.entities)}

\* C29, the part that holds in any run: the AI never has more than one
\* worker holding a build target, never places a second barracks, and has
\* no worker on its way to build once it has a barracks
C29_OneBuilderOneBarracks ==
    /\ Cardinality(AIBuilders) <= 1
    /\ Cardinality(AIBarracksPlaced) <= 1
    /\ AIBarracksPlaced # {} => AIBuilders = {}

\* the AI in army, its barracks placed by a worker, the minerals of a second
\* one at hand
C29_Witness ==
    /\ ai.state = "army"
    /\ Cardinality(AIBarracksPlaced) = 1
    /\ AIBuilders = {}
    /\ team_minerals[AI_TEAM] >= BarracksCost

-----------------------------------------------------------------------------
(* The group move: properties *)

Moved == ran = <<"group_move">>

\* the first n + 10 offsets of the spiral, for a group of n units up to
\* four: the target, the ring around it, and the first n + 1 offsets of the
\* top edge of the second ring
Near(n) ==
    {d \in (-2..2) \X (-2..2) :
        \/ Max(Abs(d[1]), Abs(d[2])) <= 1
        \/ d[2] = -2 /\ d[1] <= n - 2}

C30_WitnessRock ==
    /\ Moved
    /\ game_map = BlockMap
    /\ Len(entities) = 2
    /\ entities[1].destination = <<3, 3>>
    /\ entities[2].destination = <<3, 3>>

\* two units sent to the hole in the block, both to its one tile
C30_WitnessShared ==
    /\ Moved
    /\ game_map = CellMap
    /\ Len(entities) = 2
    /\ entities[1].destination = <<3, 3>>
    /\ entities[2].destination = <<3, 3>>

-----------------------------------------------------------------------------
(* The player's clicks: properties *)

\* the first of the selection, and the first live unit of it
FirstSelected ==
    IF selected_ids = {} THEN 0
    ELSE CHOOSE i \in selected_ids : \A j \in selected_ids : i <= j

FirstUnit ==
    LET units == {i \in selected_ids :
                     entities[i].alive /\ entities[i].kind \in {"Worker", "Soldier"}}
    IN  IF units = {} THEN 0 ELSE CHOOSE i \in units : \A j \in units : i <= j

\* a click in build mode with a worker first in the selection
BuildClick ==
    /\ build_mode
    /\ build_type # "none"
    /\ FirstSelected # 0
    /\ entities[FirstSelected].kind = "Worker"

\* the entities a step gave an order to: those whose destination, target,
\* gather target, build target or state it changed
Ordered ==
    {i \in EntityIds :
        \/ entities'[i].destination # entities[i].destination
        \/ entities'[i].target # entities[i].target
        \/ entities'[i].gather_target # entities[i].gather_target
        \/ entities'[i].build_target # entities[i].build_target
        \/ entities'[i].state # entities[i].state}

\* C31: a click in build mode with a worker first in the selection gives
\* that worker the build target (kind, wx, wy), leaves build mode and
\* publishes one Command event for the worker, whatever is under the click
\* (the selection stays); any other click that gives an order publishes
\* exactly one Command event, for the first unit of the selection, and a
\* click that gives no order publishes at most that
C31_ClickOrdersAreAnnounced ==
    [][\A c \in ClickTargets :
           commands' = commands + 1 /\ Click(c[1], c[2]) =>
               IF BuildClick
               THEN /\ entities'[FirstSelected].build_target =
                           <<build_type, c[1], c[2]>>
                    /\ ~build_mode'
                    /\ build_type' = "none"
                    /\ selected_ids' = selected_ids
                    /\ Ordered \subseteq {FirstSelected}
                    /\ events' = <<Event("CommandEvent", FirstSelected, PLAYER, 0, 0)>>
               ELSE /\ build_mode' = build_mode
                    /\ build_type' = build_type
                    /\ Ordered # {} =>
                           /\ FirstUnit # 0
                           /\ Ordered \subseteq selected_ids
                           /\ selected_ids' = selected_ids
                           /\ events' = <<Event("CommandEvent", FirstUnit, PLAYER, 0, 0)>>
                    /\ events' # <<>> =>
                           events' = <<Event("CommandEvent", FirstUnit, PLAYER, 0, 0)>>]_vars

\* a worker told to build on the tile of another entity of the player, the
\* selection as it was
C31_Witness ==
    /\ ~build_mode
    /\ \E w \in selected_ids :
           /\ events = <<Event("CommandEvent", w, PLAYER, 0, 0)>>
           /\ entities[w].build_target # None
           /\ \E j \in EntityIds \ selected_ids :
                  /\ entities[j].alive
                  /\ entities[j].team = PLAYER
                  /\ entities[w].build_target =
                         <<"Barracks", entities[j].x, entities[j].y>>

-----------------------------------------------------------------------------
(* Stuck units: properties *)

\* the live units, and a step of the MovementSystem
LiveUnits == {i \in EntityIds : entities[i].alive /\ IsUnit(entities[i])}

Moving == pc = "Movement" /\ pc' # "Movement"

\* a unit with nowhere to go
Resting(i) == entities[i].destination = None /\ entities[i].path = <<>>

\* a unit with somewhere to go that is where it was recorded, its timer
\* reaching the threshold in this step
StuckNow(i) ==
    /\ ~Resting(i)
    /\ i \in DOMAIN stuck_timers
    /\ stuck_timers[i][2] = entities[i].x
    /\ stuck_timers[i][3] = entities[i].y
    /\ stuck_timers[i][1] + SIM_DT >= STUCK_THRESHOLD

\* the tiles up to four rings from unit i that are walkable and hold no
\* other live entity when the loop of the update comes to unit i
FreeAround(i) ==
    {t \in ((entities[i].x - 4)..(entities[i].x + 4)) \X
           ((entities[i].y - 4)..(entities[i].y + 4)) :
        /\ t # <<entities[i].x, entities[i].y>>
        /\ is_walkable(t[1], t[2])
        /\ \A o \in EntityIds \ {i} :
               LET other == IF o < i THEN entities'[o] ELSE entities[o]
               IN  other.alive => other.x # t[1] \/ other.y # t[2]}

\* unit i taken to one of the tiles, its path thrown away, its timer gone
Teleported(i, tiles) ==
    /\ <<entities'[i].x, entities'[i].y>> \in tiles
    /\ \/ entities'[i].path = <<>>
       \/ /\ entities'[i].destination # None
          /\ entities'[i].path =
                 find_path(<<entities'[i].x, entities'[i].y>>,
                           entities'[i].destination)
    /\ i \notin DOMAIN stuck_timers'

\* unit i where it was, or a step along its path
NotTeleported(i) ==
    \/ entities'[i].x = entities[i].x /\ entities'[i].y = entities[i].y
    \/ /\ entities[i].path # <<>>
       /\ <<entities'[i].x, entities'[i].y>> = entities[i].path[1]

\* C32 as stated: a unit with a destination or a path that has not left its
\* recorded position for STUCK_THRESHOLD seconds is teleported to a free
\* walkable tile within four rings, its path cleared and its timer
\* restarted; a unit with neither is not timed and not teleported
C32_StuckUnitsAreTeleported ==
    [][Moving =>
           \A i \in LiveUnits :
               /\ StuckNow(i) => Teleported(i, FreeAround(i))
               /\ Resting(i) =>
                      /\ i \notin DOMAIN stuck_timers'
                      /\ entities'[i].x = entities[i].x
                      /\ entities'[i].y = entities[i].y]_vars

\* C32: the same, the stuck unit teleported if there is a free walkable tile
\* within four rings; if there is none it is left where it is and its timer
\* restarts all the same; no other unit is teleported
C32_StuckUnitsAreTeleportedIfRoom ==
    [][Moving =>
           \A i \in LiveUnits :
               /\ StuckNow(i) =>
                      IF FreeAround(i) # {}
                      THEN Teleported(i, FreeAround(i))
                      ELSE NotTeleported(i) /\ i \notin DOMAIN stuck_timers'
               /\ ~StuckNow(i) => NotTeleported(i)
               /\ Resting(i) =>
                      /\ i \notin DOMAIN stuck_timers'
                      /\ entities'[i].x = entities[i].x
                      /\ entities'[i].y = entities[i].y]_vars

\* a worker sent behind the wall, teleported to a tile beside its own
C32_Witness ==
    /\ game_map = SplitMap
    /\ pc = "Combat"
    /\ \E i \in LiveUnits :
           /\ entities[i].build_target # None
           /\ <<entities[i].x, entities[i].y>> #
                  <<began.entities[i].x, began.entities[i].y>>
           /\ Max(Abs(entities[i].x - began.entities[i].x),
                  Abs(entities[i].y - began.entities[i].y)) <= 4
           /\ i \notin DOMAIN stuck_timers

\* the worker on the island after STUCK_THRESHOLD seconds: where it was, its
\* timer gone
C32_WitnessNoRoom ==
    /\ game_map = IslandMap
    /\ pc = "Combat"
    /\ game_time >= STUCK_THRESHOLD + 2 * SIM_DT
    /\ \E i \in LiveUnits :
           /\ entities[i].build_target # None
           /\ <<entities[i].x, entities[i].y>> =
                  <<began.entities[i].x, began.entities[i].y>>
           /\ stuck_timers = EmptyDict

-----------------------------------------------------------------------------
(* Building placement: properties *)

\* a step of the BuildingPlacementSystem, and the workers it looks at
Placing == pc = "BuildingPlacement" /\ pc' # "BuildingPlacement"

Builders ==
    {i \in EntityIds : /\ entities[i].alive
                       /\ entities[i].kind = "Worker"
                       /\ entities[i].build_target # None}

SiteOf(i) == <<entities[i].build_target[2], entities[i].build_target[3]>>

\* the tiles a building at the site stands on (GameMap.is_buildable, size 2)
Footprint(site) == (site[1]..(site[1] + 1)) \X (site[2]..(site[2] + 1))

OnTheMap(t) ==
    /\ 0 <= t[1] /\ t[1] < game_map.width
    /\ 0 <= t[2] /\ t[2] < game_map.height

\* the site of worker i is off the map or has a tile that is not walkable
BadSite(i) ==
    \/ ~OnTheMap(SiteOf(i))
    \/ \E t \in Footprint(SiteOf(i)) : ~OnTheMap(t) \/ t \in game_map.rocks

\* worker i is at its site (no more than 2 tiles away) and its team can pay
AtSiteWithFunds(i) ==
    /\ ~BadSite(i)
    /\ Dist2(entities[i].x, entities[i].y, SiteOf(i)[1], SiteOf(i)[2]) <= 4
    /\ team_minerals[entities[i].team] >= CostOf(entities[i].build_target[1])

\* another live entity stands less than the square root of 2 away from the
\* site of worker i
SiteTaken(i) ==
    \E o \in EntityIds \ {i} :
        /\ entities[o].alive
        /\ (entities[o].x - SiteOf(i)[1]) * (entities[o].x - SiteOf(i)[1])
             + (entities[o].y - SiteOf(i)[2]) * (entities[o].y - SiteOf(i)[2]) < 2

\* the events of a type published in the step
PublishedNow(type) == {k \in 1..Len(events') : events'[k].type = type}

\* the entities spawned in the step
SpawnedNow == (Len(entities) + 1)..Len(entities')

\* the builders of the team of worker i other than i
Workmates(i) == {j \in Builders \ {i} : entities[j].team = entities[i].team}

NoProgress(i) == i \notin DOMAIN build_timers \/ build_timers[i] = 0

\* a BuildingConstructionStart event for worker i and its site is published
\* in the step
StartPublished(i) ==
    \E k \in PublishedNow("BuildingConstructionStartEvent") :
        /\ events'[k].id = i
        /\ <<events'[k].a, events'[k].b>> = SiteOf(i)

\* C34: in the first tick a worker is at its site with the minerals (no
\* progress made yet on the building), a BuildingConstructionStart event for
\* the worker and the site is published, in the first build of the worker
\* and in every later one
C34_EveryBuildIsAnnounced ==
    [][Placing =>
           \A i \in Builders :
               AtSiteWithFunds(i) /\ NoProgress(i) => StartPublished(i)]_vars

\* the seconds worker i has put into its building
Progress(i) == IF i \in DOMAIN build_timers THEN build_timers[i] ELSE 0

\* worker i is at its free site with the minerals and this tick fills the
\* build time
Finishing(i) ==
    /\ AtSiteWithFunds(i)
    /\ ~SiteTaken(i)
    /\ Progress(i) + SIM_DT >= BuildTimeOf(entities[i].build_target[1])

\* C35: the tick in which the build timer of a worker reaches the build time
\* takes the cost of the building from the minerals of its team, spawns one
\* building of the kind asked for, of the team, at the site, publishes one
\* BuildingPlaced event after the SpawnEvent of the building, clears the
\* build target and puts the timer back to 0; a building step in which no
\* worker completes leaves the minerals as they are
C35_CompletionPaysAndSpawnsOnce ==
    [][Placing =>
           /\ \A i \in Builders :
                  Finishing(i) /\ Workmates(i) = {} =>
                      LET n == Len(entities) + 1
                          placed == PublishedNow("BuildingPlacedEvent")
                          born == {k \in PublishedNow("SpawnEvent") :
                                       events'[k].id = n}
                      IN  /\ team_minerals' =
                                 [team_minerals EXCEPT ![entities[i].team] =
                                      @ - BarracksCost]
                          /\ SpawnedNow = {n}
                          /\ entities'[n].kind = entities[i].build_target[1]
                          /\ entities'[n].kind = "Barracks"
                          /\ entities'[n].team = entities[i].team
                          /\ <<entities'[n].x, entities'[n].y>> = SiteOf(i)
                          /\ entities'[n].alive
                          /\ Cardinality(placed) = 1
                          /\ \A k \in placed :
                                 /\ events'[k].id = n
                                 /\ events'[k].a = i
                                 /\ \E b \in born : b < k
                          /\ entities'[i].build_target = None
                          /\ i \in DOMAIN build_timers'
                          /\ build_timers'[i] = 0
           /\ (\A i \in Builders : ~Finishing(i)) =>
                  /\ team_minerals' = team_minerals
                  /\ SpawnedNow = {}]_vars

\* a worker with the minerals of two barracks has placed one at (4, 0)
C35_Witness ==
    /\ pc = "FogOfWar"
    /\ team_minerals[PLAYER] = BarracksCost
    /\ \E n \in EntityIds :
           /\ entities[n].kind = "Barracks" /\ entities[n].team = PLAYER
           /\ <<entities[n].x, entities[n].y>> = <<4, 0>>
           /\ \E k \in 1..Len(events) :
                  /\ events[k].type = "BuildingPlacedEvent"
                  /\ events[k].id = n
                  /\ events[k].a \in DOMAIN build_timers
                  /\ build_timers[events[k].a] = 0
                  /\ entities[events[k].a].build_target = None

\* the seconds worker i has put into its building, after the step
ProgressAfter(i) == IF i \in DOMAIN build_timers' THEN build_timers'[i] ELSE 0

\* worker i is given a build target it did not have
Retargeted(i) ==
    /\ entities[i].alive /\ entities[i].kind = "Worker"
    /\ entities'[i].build_target # None
    /\ entities'[i].build_target # entities[i].build_target

\* C36: a worker that is given a build target starts it with no build time
\* to its name: what it has put into an earlier build, finished, cancelled,
\* invalidated or given up for the new target, does not count for the new
\* one
C36_ProgressDoesNotCarryOver ==
    [][\A i \in EntityIds : Retargeted(i) => ProgressAfter(i) = 0]_vars

-----------------------------------------------------------------------------
(* Workers on their way: properties *)

\* the live workers on the way to a patch or back to the base, with nothing
\* to build
OnTheWay ==
    {i \in EntityIds : /\ entities[i].alive
                       /\ entities[i].kind = "Worker"
                       /\ entities[i].state \in {"moving_to_mineral", "returning"}
                       /\ entities[i].build_target = None}

\* C37: between two ticks, a live worker in state moving_to_mineral or
\* returning that has no build target has a destination or a path left
C37_GatherersKeepMoving ==
    pc = "idle" =>
        \A i \in OnTheWay :
            entities[i].destination # None \/ entities[i].path # <<>>

-----------------------------------------------------------------------------
(* The minerals of the world: properties *)

\* what the entities of a list carry, what the patches of a list hold, what
\* the teams have
CarriedBy(ents) == SumOf([i \in 1..Len(ents) |-> ents[i].carrying], 1..Len(ents))

HeldBy(pats) == SumOf([p \in 1..Len(pats) |-> pats[p].minerals], 1..Len(pats))

StockOf(funds) == SumOf(funds, Teams)

\* a step of the ResourceSystem
Harvesting == pc = "Resources" /\ pc' # "Resources"

\* the ResourceCollected events of the step for a team
Deliveries(t) ==
    {k \in PublishedNow("ResourceCollectedEvent") : events'[k].team = t}

\* C38: no step creates minerals. A patch never gains minerals and never
\* holds less than none; in a step of the ResourceSystem every
\* ResourceCollected event reports an amount from 1 to 8, the minerals of a
\* team grow by the amounts of its events, and what the teams gain and the
\* workers carry more is no more than what the patches lose; no other step
\* adds to the minerals of a team or to what is carried, or touches a patch
C38_MineralsAreNeverCreated ==
    [][/\ Len(minerals') = Len(minerals)
       /\ \A p \in 1..Len(minerals) :
              /\ minerals'[p].minerals <= minerals[p].minerals
              /\ minerals'[p].minerals >= 0
       /\ IF Harvesting
          THEN /\ \A k \in PublishedNow("ResourceCollectedEvent") :
                      /\ 1 <= events'[k].a /\ events'[k].a <= 8
                      /\ events'[k].b <= team_minerals'[events'[k].team]
               /\ \A t \in Teams :
                      team_minerals'[t] - team_minerals[t] =
                          SumOf([k \in Deliveries(t) |-> events'[k].a],
                                Deliveries(t))
               /\ (StockOf(team_minerals') - StockOf(team_minerals))
                     + (CarriedBy(entities') - CarriedBy(entities))
                  <= HeldBy(minerals) - HeldBy(minerals')
          ELSE /\ \A t \in Teams : team_minerals'[t] <= team_minerals[t]
               /\ CarriedBy(entities') <= CarriedBy(entities)
               /\ HeldBy(minerals') = HeldBy(minerals)]_vars

\* a worker has brought the single mineral of a patch to its base
C38_Witness ==
    /\ pc = "Production"
    /\ \E k \in 1..Len(events) :
           /\ events[k].type = "ResourceCollectedEvent"
           /\ events[k].a = 1
           /\ events[k].b = team_minerals[events[k].team]
           /\ entities[events[k].id].carrying = 0
    /\ \E p \in 1..Len(minerals) : minerals[p].minerals = 0

-----------------------------------------------------------------------------
(* The verdict: properties *)

\* team t has a live base after the step
BaseStands(t) ==
    \E i \in 1..Len(entities') :
        /\ entities'[i].kind = "Base"
        /\ entities'[i].team = t
        /\ entities'[i].alive

\* C39: in the step that sets game_over, the team declared the winner has
\* its own base alive, also when both bases fell in the same tick
C39_WinnerHasItsBase ==
    [][~game_over /\ game_over' => winner' \in Teams /\ BaseStands(winner')]_vars

-----------------------------------------------------------------------------
(* Resets: properties *)

\* the callables of the handlers built in round r
HandlersOfRound(r) ==
    {Constructed(Verbose, Xmas, r)[k][3] :
         k \in 1..Len(Constructed(Verbose, Xmas, r))}

\* the round in which the last publish was made
RoundPublished == Round(SubSeq(history, 1, published_at))

\* C40: after any number of resets the bus holds the subscriptions of a
\* game just constructed, those of the handlers of the current round and no
\* others, and the last event published went to handlers of the round it was
\* published in, to each of them once
C40_OnlyTheCurrentRoundListens ==
    /\ \A t \in DOMAIN subscribers :
           /\ \A k \in 1..Len(subscribers[t]) :
                  subscribers[t][k] \in HandlersOfRound(Round(history))
           /\ subscribers[t] =
                  Subscribed([u \in GameEventTypes |-> <<>>],
                             Constructed(Verbose, Xmas, Round(history)))[t]
    /\ \A k \in 1..Len(calls) :
           /\ calls[k].handler \in HandlersOfRound(RoundPublished)
           /\ \A j \in 1..Len(calls) :
                  calls[j].handler = calls[k].handler => j = k

=============================================================================
